---- MODULE Spec2Model ----
(***************************************************************************)
(* The synchronous micro-batch pipeline of Pytorch-Gpipe.                  *)
(*                                                                         *)
(* The stage wrappers (ActivationSavingLayer, LayerWrapper, SyncWrapper)   *)
(* and the tensor helpers are those of pytorch_Gpipe/pipeline/             *)
(* sync_wrapper.py and utils.py.  The cycle counter (cycle_counter.py) and *)
(* the driver that sweeps the stages (PipelineParallel) are not among the  *)
(* source files; they follow spec.md 4.1 and 4.5.                          *)
(*                                                                         *)
(* The pipeline is the chain the tests and wrap_layers build: an           *)
(* ActivationSavingLayer in front, a LayerWrapper around the operator of   *)
(* rank 0, and a SyncWrapper around the operator of every rank 1..N-1.     *)
(***************************************************************************)
EXTENDS Integers, Sequences, FiniteSets, TLC

VARIABLES
    num_gpus,      \* CycleCounter.num_gpus: the stage count N
    num_runs,      \* CycleCounter.num_runs: the micro-batch count M
    count,         \* CycleCounter's counter, advanced once per cycle
    cur_mode,      \* CycleCounter.cur_mode: "eval", "train" or "backward"
    wrappers,      \* rank -> the fields of the wrapper of that rank
    rng,           \* device -> RNG state of the device
    pc,            \* where the driver is
    pos,           \* the stage the driver calls next in the current cycle
    x,             \* the value threaded from stage to stage
    results,       \* outputs of the last stage collected by run_forward
    output,        \* what the last completed run_forward returned
    error,         \* the error the last driver call surfaced
    calls,         \* rank -> <<cycle, micro-batch>> of each operator call
    pushes,        \* rank -> checkpoints pushed in the current batch
    pops,          \* rank -> checkpoints popped in the current batch
    fwdCycles,     \* forward cycles performed by the current batch
    revCycles,     \* reverse cycles performed by the current batch
    startQueues,   \* rank -> queue length when the current driver call began
    lastCall,      \* the driver call in progress or last finished
    followsTrain,  \* the run_reverse follows a completed forward-train run_forward
    runMode,       \* the mode the current or last run_forward ran in
    prevRun,       \* what the run_forward before the current one left
    pushed,        \* rank -> the checkpoints pushed in the current batch, in order
    popped,        \* rank -> the checkpoints popped in the current reverse sweep
    inflight,      \* rank -> the transfer on the rank's pipe_stream is not complete
    raced,         \* an operator has read a buffered input still in flight
    outCycles,     \* rank -> cycles of the phase so far with output_valid
    inCycles,      \* rank -> cycles of the phase so far with input_valid
    sameObject,    \* tensor.device and self.device of one device are one object
    arg,           \* the input of the stage call made last
    batch,         \* the Tensors given to tensors_split
    size,          \* the micro-batch size given to tensors_split
    micro_batches, \* what tensors_split returned
    joined,        \* what tensors_cat returned
    buffered,      \* the first argument of the merge: a prev_inputs
    arrived,       \* the second argument of the merge: the inputs of a call
    merged,        \* what the merge returned or raised
    device_delays, \* DeviceDelayer.device_delays: source device -> delay
    delay_blocks,  \* DeviceDelayer.delay_blocks: the fields of each block
    gpu_num,       \* the gpu_num the DeviceDelayer was built with
    emerged,       \* what the last DeviceDelayer.forward returned
    device_lst,    \* the devices given to wrap_and_move, in pipeline order
    top_scopes_to_device, \* wrap_layers: layer scope -> the layer's device
    part_inputs,   \* wrap_layers: the scopes that are inputs of a part
    installed,     \* layer scope -> the wrapper wrap_layers put in its place
    graph,         \* Graph.nodes: idx -> type, part and in_nodes of the node
    nparts,        \* the number of parts of the partition
    scc,           \* the locals of strongly_connected_components_iterative
    bfs,           \* the locals of _partition_to_device
    gen            \* the locals of generateStatements

vars == <<num_gpus, num_runs, count, cur_mode, wrappers, rng, pc, pos, x,
          results, output, error, calls, pushes, pops, fwdCycles, revCycles,
          startQueues, lastCall, followsTrain, runMode, prevRun, pushed,
          popped, inflight, raced, outCycles, inCycles, sameObject, arg,
          batch, size, micro_batches, joined, buffered, arrived, merged,
          device_delays, delay_blocks, gpu_num, emerged, device_lst,
          top_scopes_to_device, part_inputs, installed, graph, nparts, scc,
          bfs, gen>>

\* What the runs of the driver record of their history, and the state of the
\* transfer paths and of a counter walked cycle by cycle.
ghostVars == <<runMode, prevRun, pushed, popped>>

\* The arguments and results of the tensor helpers called on their own.
utilVars == <<batch, size, micro_batches, joined, buffered, arrived, merged>>

\* The DeviceDelayer called on its own.
delayerVars == <<device_delays, delay_blocks, gpu_num, emerged>>

\* The arguments and the result of wrap_layers.
wrapVars == <<device_lst, top_scopes_to_device, part_inputs, installed>>

\* The graph of the model and the locals of the functions that walk it.
graphVars == <<graph, nparts, scc, bfs, gen>>

\* What the pipeline, a stage called on its own and the tensor helpers leave
\* alone.
extVars == <<delayerVars, wrapVars, graphVars>>

unitVars ==
    <<inflight, raced, outCycles, inCycles, sameObject, arg, utilVars, extVars>>

(***************************************************************************)
(* Bounds of the model.                                                    *)
(***************************************************************************)
MaxN == 3        \* stage counts 1..MaxN
MaxM == 3        \* micro-batch counts 1..MaxM
MaxQueue == 2    \* a batch starts only while no queue is longer than this
RngMod == 2      \* RNG states of a device are 0..RngMod-1
MaxUnitQueue == 1  \* a stage called on its own saves at most this many checkpoints
MaxRows == 3     \* batches of 1..MaxRows rows
MaxSize == 3     \* micro-batch sizes 1..MaxSize
MaxSlots == 2    \* merged structures of 1..MaxSlots slots

Ranks == 0 .. (MaxN - 1)

(***************************************************************************)
(* Values.  A slot of a Tensors structure is a tensor or None.  A tensor   *)
(* carries the micro-batch it derives from (NoBatch for uninitialised      *)
(* memory), the ranks of the operators applied to it, and its device.      *)
(***************************************************************************)
NoBatch == 0 - 1
HostDevice == 0 - 1

None == [tag |-> "None", mb |-> NoBatch, ops |-> <<>>, dev |-> HostDevice]

Tensor(mb, ops, dev) == [tag |-> "Tensor", mb |-> mb, ops |-> ops, dev |-> dev]

\* What tensors_to leaves in a slot: move_tensor holds a yield, so calling it
\* returns a generator object and moves nothing (utils.py 40-44).
Generator(t) == [tag |-> "Generator", mb |-> t.mb, ops |-> t.ops, dev |-> t.dev]

\* isinstance(v, torch.Tensor)
IsTensor(v) == v.tag = "Tensor"

\* An attribute that holds a Tensors tuple or is None as a whole.
NoneAttr == [isNone |-> TRUE, slots |-> <<>>]

Tuple(s) == [isNone |-> FALSE, slots |-> s]

\* The error a Python operation raises, or NoError.
NoError == "none"
TypeError == "TypeError"
IndexError == "IndexError"
RangeError == "RangeError"


(***************************************************************************)
(* pipeline/utils.py                                                       *)
(***************************************************************************)
Raise(e) == [err |-> e, val |-> NoneAttr]

Return(v) == [err |-> NoError, val |-> v]

\* The call has not been made.
Pending == [err |-> "pending", val |-> NoneAttr]

\* The slots of a structure, and the pairs zip can form of two structures.
SlotsOf(tensors) == {tensors.slots[k] : k \in DOMAIN tensors.slots}

PairsOf(t1, t2) == SlotsOf(t1) \X SlotsOf(t2)

\* tensors_map on what a wrapper holds: a tuple of slots; f maps a slot.  A
\* slot that is no tensor is taken for a container and iterated, which raises
\* TypeError for None; so does a structure that is None as a whole.
tensors_map(tensors, f) ==
    IF tensors.isNone \/ \E k \in DOMAIN tensors.slots : ~IsTensor(tensors.slots[k])
    THEN Raise(TypeError)
    ELSE Return(Tuple([k \in DOMAIN tensors.slots |-> f[tensors.slots[k]]]))

Min(a, b) == IF a <= b THEN a ELSE b

\* tensors_bi_map: zip(t1, t2) pairs the slots up to the shorter length; the
\* recursion decides on t1 alone whether a slot is a leaf, so a non-tensor
\* slot of t1 raises TypeError, and so does a t1 or t2 that is None as a whole.
tensors_bi_map(t1, t2, f) ==
    IF t1.isNone \/ t2.isNone
    THEN Raise(TypeError)
    ELSE LET n == Min(Len(t1.slots), Len(t2.slots))
         IN  IF \E k \in 1 .. n : ~IsTensor(t1.slots[k])
             THEN Raise(TypeError)
             ELSE Return(Tuple([k \in 1 .. n |-> f[<<t1.slots[k], t2.slots[k]>>]]))

\* get_devices: the devices of the slots, left to right.
get_devices(tensors) ==
    [isNone |-> FALSE, slots |-> [k \in DOMAIN tensors.slots |-> tensors.slots[k].dev]]

\* tensors_to: maps move_tensor, a generator function, over the slots.
tensors_to(tensors, devices) ==
    tensors_map(tensors, [tensor \in SlotsOf(tensors) |-> Generator(tensor)])

\* gen_garbage_output for a one-tensor shape, unwrapped by its callers
\* (len(output) == 1): uninitialised memory on the device.
gen_garbage_output(device) == Tensor(NoBatch, <<>>, device)

\* A Tensors structure with its rows: a tensor of rows, or a tuple or list
\* of structures.
Rows(rows) == [kind |-> "tensor", rows |-> rows, items |-> <<>>]

Container(kind, items) == [kind |-> kind, rows |-> <<>>, items |-> items]

NoStructure == [kind |-> "none", rows |-> <<>>, items |-> <<>>]

RECURSIVE batch_dim(_)
batch_dim(tensors) ==
    IF tensors.kind = "tensor" THEN Len(tensors.rows) ELSE batch_dim(tensors.items[1])

\* tensor[lo : hi]
slice(rows, lo, hi) == SubSeq(rows, lo + 1, Min(hi, Len(rows)))

\* tensors_map(tensors, lambda tensor: tensor[lo : hi]) (line 53)
RECURSIVE tensors_map_slice(_, _, _)
tensors_map_slice(tensors, lo, hi) ==
    IF tensors.kind = "tensor"
    THEN Rows(slice(tensors.rows, lo, hi))
    ELSE Container(tensors.kind,
                   [k \in DOMAIN tensors.items |->
                       tensors_map_slice(tensors.items[k], lo, hi)])

\* math.ceil(a / b)
ceil_div(a, b) == (a + b - 1) \div b

\* tensors_split as it would be if it dropped an incomplete last micro-batch.
tensors_split_floor(tensors, sz) ==
    [i \in 1 .. (batch_dim(tensors) \div sz) |->
        tensors_map_slice(tensors, (i - 1) * sz, i * sz)]

tensors_split(tensors, sz) ==
    LET batch_size == batch_dim(tensors)
        num_splits == ceil_div(batch_size, sz)
    IN  [i \in 1 .. num_splits |-> tensors_map_slice(tensors, (i - 1) * sz, i * sz)]

\* torch.cat(tensors, dim=0): the rows of the tensors, one after the other.
RECURSIVE cat(_)
cat(ts) == IF ts = <<>> THEN <<>> ELSE Head(ts).rows \o cat(Tail(ts))

\* The length zip(*tensors) has: that of the shortest of the structures.
RECURSIVE zip_len(_)
zip_len(ts) ==
    IF Len(ts) = 1 THEN Len(ts[1].items)
    ELSE Min(Len(Head(ts).items), zip_len(Tail(ts)))

\* tensors_cat as it would be if it kept the first micro-batch only.
tensors_cat_first(ts) == ts[1]

RECURSIVE tensors_cat(_)
tensors_cat(ts) ==
    IF ts[1].kind = "tensor"
    THEN Rows(cat(ts))
    ELSE Container(ts[1].kind,
                   [k \in 1 .. zip_len(ts) |->
                       tensors_cat([j \in DOMAIN ts |-> ts[j].items[k]])])

(***************************************************************************)
(* CycleCounter, after spec.md 4.1.  The counter counts the cycles of the  *)
(* current phase; the reverse phase traverses the cycles F-1 .. 0.         *)
(***************************************************************************)
F == num_gpus + num_runs - 1

get_count == count

Cycle == IF cur_mode = "backward" THEN F - 1 - count ELSE count

\* output_valid as it would be with the window of input_valid.
output_valid_one_late(i) == i + 1 <= Cycle /\ Cycle <= i + num_runs

output_valid(i) == i <= Cycle /\ Cycle < i + num_runs

input_valid(i) == i + 1 <= Cycle /\ Cycle <= i + num_runs

\* advance() as it would be if it allowed one step more.
advance_error_one_more == IF count > F THEN RangeError ELSE NoError

\* advance(): the error it raises, if any.
advance_error == IF count >= F THEN RangeError ELSE NoError

advance == count + 1

\* The counter after a stage method as it would be if the method advanced it.
counter_after_stage_call_advanced ==
    [num_gpus |-> num_gpus, num_runs |-> num_runs, count |-> count + 1,
     cur_mode |-> cur_mode]

\* The counter after a call of a stage method: the wrappers call
\* output_valid, input_valid and get_count and read cur_mode, which leave the
\* counter as it is, and assign to none of its fields.
counter_after_stage_call ==
    [num_gpus |-> num_gpus, num_runs |-> num_runs, count |-> count,
     cur_mode |-> cur_mode]

(***************************************************************************)
(* The operators the wrappers wrap, and tensor methods.                    *)
(***************************************************************************)
\* self.module(*used_inputs) of rank i: the operator applied to its input.
module(i, used) ==
    Tensor(used.slots[1].mb, Append(used.slots[1].ops, i), i)

\* tensor.to(device, non_blocking=True)
to(tensor, device) == [tensor EXCEPT !.dev = device]

\* A stochastic operator draws from the RNG of its device.
draw(rngd) == (rngd + 1) % RngMod

\* act.grad: a gradient once backward has reached act, None before.
grad_of(act, reached) == IF reached THEN act ELSE None

\* The fields of a wrapper after __init__ (sync_wrapper.py 33-44, 176-183).
NewWrapper ==
    [activations |-> <<>>, rng_states |-> <<>>, prev_inputs |-> NoneAttr,
     grads |-> NoneAttr, input_devices |-> NoneAttr]

\* The list objects activations and rng_states of the wrapper of rank i as
\* they would be if all wrappers held the same two lists.
lists_of_shared(i) == 0

\* The list objects activations and rng_states of the wrapper of rank i:
\* __init__ builds two new lists for every wrapper.
lists_of(i) == i

\* The wrappers after a method of the wrapper of rank i has left it as nw:
\* append and pop change a list for every wrapper that holds it.
Store(ws, i, nw) ==
    [j \in Ranks |->
        IF j = i THEN nw
        ELSE IF lists_of(j) = lists_of(i)
             THEN [ws[j] EXCEPT !.activations = nw.activations,
                                !.rng_states = nw.rng_states]
             ELSE ws[j]]

\* What a wrapper method leaves: the error raised (or NoError), the wrapper's
\* fields, the value returned, the RNG state of the wrapper's device, and the
\* micro-batches the wrapped operator was called on.
Res(err, w, out, rngd, on) ==
    [err |-> err, w |-> w, out |-> out, rngd |-> rngd, on |-> on]

(***************************************************************************)
(* SyncWrapper                                                             *)
(***************************************************************************)
has_grads(w) == ~w.prev_inputs.isNone

\* lambda t1, t2: t2 if t1 is None else t1 (lines 98 and 127), on the pairs
\* of slots of t1 and t2.
prefer_first(t1, t2) ==
    [p \in PairsOf(t1, t2) |-> IF p[1] = None THEN p[2] ELSE p[1]]

\* prepare_activation (lines 88-94): a clone that tracks its gradient.
prepare_activation(prev_inputs) ==
    [act \in SlotsOf(prev_inputs) |-> IF act = None THEN None ELSE act]

\* delay_device compares tensor.device with self.device by identity ("is
\* not"): the objects differ when the devices differ; for a tensor on the
\* wrapper's own device they are the same object or two equal objects,
\* which torch decides and the source does not.
delay_device(i, tensor) == ~(sameObject /\ tensor.dev = i)

\* pop_activation as it would be with a guard for an empty queue.
SyncWrapper_pop_activation_skips_empty(w, i, rngd) ==
    IF output_valid(i) /\ w.rng_states # <<>> /\ w.activations # <<>>
    THEN Res(NoError,
             [w EXCEPT !.rng_states = Tail(w.rng_states),
                       !.prev_inputs = Head(w.activations),
                       !.activations = Tail(w.activations)],
             None, Head(w.rng_states), <<>>)
    ELSE Res(NoError, w, None, rngd, <<>>)

SyncWrapper_pop_activation(w, i, rngd) ==
    IF output_valid(i)
    THEN IF w.rng_states = <<>>
         THEN Res(IndexError, w, None, rngd, <<>>)
         ELSE LET w1 == [w EXCEPT !.rng_states = Tail(w.rng_states)]
                  r1 == Head(w.rng_states)
              IN  IF w.activations = <<>>
                  THEN Res(IndexError, w1, None, r1, <<>>)
                  ELSE Res(NoError,
                           [w1 EXCEPT !.prev_inputs = Head(w.activations),
                                      !.activations = Tail(w.activations)],
                           None, r1, <<>>)
    ELSE Res(NoError, w, None, rngd, <<>>)

SyncWrapper_update_grads(w, i, rngd, reached) ==
    IF input_valid(i) /\ has_grads(w)
    THEN LET g == tensors_map(w.prev_inputs,
                              [act \in SlotsOf(w.prev_inputs) |->
                                  IF act = None THEN None ELSE grad_of(act, reached)])
         IN  IF g.err # NoError
             THEN Res(g.err, w, None, rngd, <<>>)
             ELSE LET m == tensors_to(g.val, w.input_devices)
                  IN  IF m.err # NoError
                      THEN Res(m.err, [w EXCEPT !.grads = g.val], None, rngd, <<>>)
                      ELSE Res(NoError, [w EXCEPT !.grads = m.val], None, rngd, <<>>)
    ELSE Res(NoError, w, None, rngd, <<>>)

SyncWrapper_finished_prop(w) ==
    [w EXCEPT !.prev_inputs = NoneAttr, !.grads = NoneAttr]

\* input.backward(grad) for every slot with a gradient: the error it raises.
\* A gradient that is no tensor is refused.
backward_error(inputs, grads) ==
    LET b == tensors_bi_map(inputs, grads, [p \in PairsOf(inputs, grads) |-> p[2]])
    IN  IF b.err # NoError THEN b.err
        ELSE IF \E k \in DOMAIN b.val.slots : b.val.slots[k].tag = "Generator"
             THEN TypeError
             ELSE NoError

SyncWrapper_backward_mode(w, i, inputs, rngd) ==
    LET e == IF input_valid(i) THEN backward_error(inputs, w.grads) ELSE NoError
    IN  IF e # NoError
        THEN Res(e, w, None, rngd, <<>>)
        ELSE IF output_valid(i)
             THEN LET p == tensors_map(w.prev_inputs, prepare_activation(w.prev_inputs))
                  IN  IF p.err # NoError
                      THEN Res(p.err, w, None, rngd, <<>>)
                      ELSE LET w1 == [w EXCEPT !.prev_inputs = p.val]
                               u == tensors_bi_map(w1.prev_inputs, inputs,
                                                   prefer_first(w1.prev_inputs, inputs))
                           IN  IF u.err # NoError
                               THEN Res(u.err, w1, None, rngd, <<>>)
                               ELSE Res(NoError, w1, module(i, u.val), draw(rngd),
                                        <<u.val.slots[1].mb>>)
             ELSE Res(NoError, w, gen_garbage_output(i), rngd, <<>>)

\* save_activation: the RNG state is appended before the inputs are mapped.
SyncWrapper_save_activation(w, moved_inputs, rngd) ==
    LET w1 == [w EXCEPT !.rng_states = Append(w.rng_states, rngd)]
        c == tensors_map(moved_inputs, [input \in SlotsOf(moved_inputs) |->
                                            IF input = None THEN None ELSE input])
    IN  IF c.err # NoError
        THEN Res(c.err, w1, None, rngd, <<>>)
        ELSE Res(NoError, [w1 EXCEPT !.activations = Append(w.activations, c.val)],
                 None, rngd, <<>>)

\* Lines 138-156 as they would be if the activation were saved in every mode.
SyncWrapper_keep_inputs_saves_in_eval(w, i, inputs, out, rngd, on) ==
    IF input_valid(i)
    THEN LET w1 == IF get_count = i
                   THEN [w EXCEPT !.input_devices = get_devices(inputs)]
                   ELSE w
             m == tensors_map(inputs,
                              [tensor \in SlotsOf(inputs) |->
                                  IF ~delay_device(i, tensor) THEN None
                                  ELSE to(tensor, i)])
         IN  IF m.err # NoError
             THEN Res(m.err, w1, None, rngd, on)
             ELSE LET s == SyncWrapper_save_activation(w1, m.val, rngd)
                  IN  IF s.err # NoError
                      THEN Res(s.err, s.w, None, rngd, on)
                      ELSE Res(NoError, [s.w EXCEPT !.prev_inputs = m.val],
                               out, rngd, on)
    ELSE LET n == tensors_map(inputs, [t \in SlotsOf(inputs) |-> None])
         IN  IF n.err # NoError
             THEN Res(n.err, w, None, rngd, on)
             ELSE Res(NoError, [w EXCEPT !.prev_inputs = n.val], out, rngd, on)

\* Lines 138-156 of forward: the input kept for the next cycle.
SyncWrapper_keep_inputs(w, i, inputs, out, rngd, on) ==
    IF input_valid(i)
    THEN LET w1 == IF get_count = i
                   THEN [w EXCEPT !.input_devices = get_devices(inputs)]
                   ELSE w
             m == tensors_map(inputs,
                              [tensor \in SlotsOf(inputs) |->
                                  IF ~delay_device(i, tensor) THEN None
                                  ELSE to(tensor, i)])
         IN  IF m.err # NoError
             THEN Res(m.err, w1, None, rngd, on)
             ELSE IF cur_mode = "train"
                  THEN LET s == SyncWrapper_save_activation(w1, m.val, rngd)
                       IN  IF s.err # NoError
                           THEN Res(s.err, s.w, None, rngd, on)
                           ELSE Res(NoError, [s.w EXCEPT !.prev_inputs = m.val],
                                    out, rngd, on)
                  ELSE Res(NoError, [w1 EXCEPT !.prev_inputs = m.val], out, rngd, on)
    ELSE LET n == tensors_map(inputs, [t \in SlotsOf(inputs) |-> None])
         IN  IF n.err # NoError
             THEN Res(n.err, w, None, rngd, on)
             ELSE Res(NoError, [w EXCEPT !.prev_inputs = n.val], out, rngd, on)

SyncWrapper_forward(w, i, inputs, rngd) ==
    IF cur_mode = "backward"
    THEN SyncWrapper_backward_mode(w, i, inputs, rngd)
    ELSE IF output_valid(i)
         THEN LET u == tensors_bi_map(w.prev_inputs, inputs,
                                      prefer_first(w.prev_inputs, inputs))
              IN  IF u.err # NoError
                  THEN Res(u.err, w, None, rngd, <<>>)
                  ELSE SyncWrapper_keep_inputs(w, i, inputs, module(i, u.val),
                                               draw(rngd), <<u.val.slots[1].mb>>)
         ELSE SyncWrapper_keep_inputs(w, i, inputs, gen_garbage_output(i), rngd, <<>>)

(***************************************************************************)
(* ActivationSavingLayer: gpu_num 0, on the device of rank 0.              *)
(***************************************************************************)
ActivationSavingLayer_pop_activation(w, rngd) ==
    IF output_valid(0)
    THEN IF w.rng_states = <<>>
         THEN Res(IndexError, w, None, rngd, <<>>)
         ELSE LET w1 == [w EXCEPT !.rng_states = Tail(w.rng_states)]
                  r1 == Head(w.rng_states)
              IN  IF w.activations = <<>>
                  THEN Res(IndexError, w1, None, r1, <<>>)
                  ELSE Res(NoError,
                           [w1 EXCEPT !.prev_inputs = Head(w.activations),
                                      !.activations = Tail(w.activations)],
                           None, r1, <<>>)
    ELSE Res(NoError, w, None, rngd, <<>>)

ActivationSavingLayer_finished_prop(w) == [w EXCEPT !.prev_inputs = NoneAttr]

\* len(output) of a prev_inputs that is None raises TypeError.
ActivationSavingLayer_backward_mode(w, inputs, rngd) ==
    IF output_valid(0)
    THEN IF w.prev_inputs.isNone
         THEN Res(TypeError, w, None, rngd, <<>>)
         ELSE Res(NoError, w, w.prev_inputs.slots[1], rngd, <<>>)
    ELSE LET g == tensors_map(inputs, [t \in SlotsOf(inputs) |-> gen_garbage_output(t.dev)])
         IN  IF g.err # NoError
             THEN Res(g.err, w, None, rngd, <<>>)
             ELSE Res(NoError, w, g.val.slots[1], rngd, <<>>)

ActivationSavingLayer_save_activation(w, moved_inputs, rngd) ==
    LET w1 == [w EXCEPT !.rng_states = Append(w.rng_states, rngd)]
        c == tensors_map(moved_inputs, [input \in SlotsOf(moved_inputs) |-> input])
    IN  IF c.err # NoError
        THEN Res(c.err, w1, None, rngd, <<>>)
        ELSE Res(NoError, [w1 EXCEPT !.activations = Append(w.activations, c.val)],
                 None, rngd, <<>>)

\* forward as it would be if it saved the activation in every forward mode.
ActivationSavingLayer_forward_saves_in_eval(w, inputs, rngd) ==
    IF cur_mode = "backward"
    THEN ActivationSavingLayer_backward_mode(w, inputs, rngd)
    ELSE LET m == tensors_map(inputs, [tensor \in SlotsOf(inputs) |-> to(tensor, 0)])
         IN  IF m.err # NoError
             THEN Res(m.err, w, None, rngd, <<>>)
             ELSE IF input_valid(0)
                  THEN LET s == ActivationSavingLayer_save_activation(w, m.val, rngd)
                       IN  IF s.err # NoError
                           THEN Res(s.err, s.w, None, rngd, <<>>)
                           ELSE Res(NoError, s.w, m.val.slots[1], rngd, <<>>)
                  ELSE Res(NoError, w, m.val.slots[1], rngd, <<>>)

ActivationSavingLayer_forward(w, inputs, rngd) ==
    IF cur_mode = "backward"
    THEN ActivationSavingLayer_backward_mode(w, inputs, rngd)
    ELSE LET m == tensors_map(inputs, [tensor \in SlotsOf(inputs) |-> to(tensor, 0)])
         IN  IF m.err # NoError
             THEN Res(m.err, w, None, rngd, <<>>)
             ELSE IF cur_mode = "train" /\ input_valid(0)
                  THEN LET s == ActivationSavingLayer_save_activation(w, m.val, rngd)
                       IN  IF s.err # NoError
                           THEN Res(s.err, s.w, None, rngd, <<>>)
                           ELSE Res(NoError, s.w, m.val.slots[1], rngd, <<>>)
                  ELSE Res(NoError, w, m.val.slots[1], rngd, <<>>)

(***************************************************************************)
(* LayerWrapper: no fields of its own.                                     *)
(***************************************************************************)
LayerWrapper_forward(i, inputs, rngd) ==
    IF output_valid(i)
    THEN Res(NoError, NewWrapper, module(i, inputs), draw(rngd),
             <<inputs.slots[1].mb>>)
    ELSE Res(NoError, NewWrapper, gen_garbage_output(i), rngd, <<>>)

(***************************************************************************)
(* The stages' reverse step and the driver, after spec.md 4.2, 4.4, 4.5    *)
(* and 7.                                                                  *)
(***************************************************************************)
\* BoundaryStage reverse path: propagate the buffered gradients, pop the
\* checkpoint, recompute.
SyncWrapper_reverse(w, i, inputs, rngd, reached) ==
    LET g == SyncWrapper_update_grads(w, i, rngd, reached)
    IN  IF g.err # NoError THEN g
        ELSE LET q == SyncWrapper_pop_activation(g.w, i, g.rngd)
             IN  IF q.err # NoError THEN q
                 ELSE SyncWrapper_forward(q.w, i, inputs, q.rngd)

\* EntryStage reverse: pop the checkpoint and return it.
ActivationSavingLayer_reverse(w, inputs, rngd) ==
    LET q == ActivationSavingLayer_pop_activation(w, rngd)
    IN  IF q.err # NoError THEN q
        ELSE ActivationSavingLayer_forward(q.w, inputs, q.rngd)

\* finished_prop() on every stage.
FinishedPropAll(ws) ==
    [i \in Ranks |-> IF i = 0 THEN ActivationSavingLayer_finished_prop(ws[i])
                              ELSE SyncWrapper_finished_prop(ws[i])]

\* The slice of the batch fed at forward cycle c of a batch of m micro-batches.
MicroBatch(c, m) ==
    IF c < m THEN Tensor(c, <<>>, HostDevice) ELSE gen_garbage_output(HostDevice)

\* The slice of batch_grad fed to the last stage at reverse cycle c.
GradBatch(c) ==
    IF num_gpus - 1 <= c /\ c < num_gpus - 1 + num_runs
    THEN Tensor(c - (num_gpus - 1), <<>>, HostDevice)
    ELSE gen_garbage_output(HostDevice)

QueueLen(w) == Len(w.activations)

Zeros == [i \in Ranks |-> 0]

\* The checkpoint queues of the stages: saved inputs and saved RNG states.
Queues(ws) == [i \in Ranks |-> <<ws[i].activations, ws[i].rng_states>>]

NoneYet == [i \in Ranks |-> <<>>]

\* No run_forward has come before.
NoRun ==
    [completed |-> FALSE, mode |-> "none", m |-> 0, output |-> <<>>,
     error |-> NoError, queues |-> [i \in Ranks |-> << <<>>, <<>> >>]]

\* The checkpoint at the back of a queue, and the one at its front.
LastCheckpoint(w) ==
    <<w.activations[Len(w.activations)], w.rng_states[Len(w.rng_states)]>>

FirstCheckpoint(w) == <<Head(w.activations), Head(w.rng_states)>>

\* The position after the last stage of a cycle, and the first of a reverse cycle.
\* No DeviceDelayer has been built.
DelayerIdle ==
    /\ device_delays = <<>>
    /\ delay_blocks = <<>>
    /\ gpu_num = 0
    /\ emerged = Pending

\* wrap_layers has not been called.
WrapIdle ==
    /\ device_lst = <<>>
    /\ top_scopes_to_device = <<>>
    /\ part_inputs = {}
    /\ installed = <<>>

\* No graph has been built.
GraphIdle ==
    /\ graph = <<>>
    /\ nparts = 0
    /\ scc = <<>>
    /\ bfs = <<>>
    /\ gen = <<>>

ExtIdle == DelayerIdle /\ WrapIdle /\ GraphIdle

EndPos == num_gpus + 1

FirstReversePos == IF num_gpus >= 2 THEN num_gpus ELSE 0

\* In a run of the driver every input of a SyncWrapper comes from another
\* device than its own, so delay_device is true whatever sameObject is.
Init ==
    /\ num_gpus \in 1 .. MaxN
    /\ num_runs \in 1 .. MaxM
    /\ count = 0
    /\ cur_mode = "eval"
    /\ wrappers = [i \in Ranks |-> NewWrapper]
    /\ rng = [i \in Ranks |-> 0]
    /\ pc = "idle"
    /\ pos = 0
    /\ x = None
    /\ results = <<>>
    /\ output = <<>>
    /\ error = NoError
    /\ calls = [i \in Ranks |-> <<>>]
    /\ pushes = Zeros
    /\ pops = Zeros
    /\ fwdCycles = 0
    /\ revCycles = 0
    /\ startQueues = Zeros
    /\ lastCall = "none"
    /\ followsTrain = FALSE
    /\ runMode = "none"
    /\ prevRun = NoRun
    /\ pushed = NoneYet
    /\ popped = NoneYet
    /\ inflight = [i \in Ranks |-> FALSE]
    /\ raced = FALSE
    /\ outCycles = [i \in Ranks |-> {}]
    /\ inCycles = [i \in Ranks |-> {}]
    /\ sameObject = FALSE
    /\ arg = None
    /\ batch = NoStructure
    /\ size = 1
    /\ micro_batches = <<>>
    /\ joined = NoStructure
    /\ buffered = NoneAttr
    /\ arrived = NoneAttr
    /\ merged = Pending
    /\ ExtIdle

\* The driver has called a method of the wrapper of rank i, which left r; nw
\* is the wrapper's fields afterwards, next the stage to call after it.
StageStep(r, i, nw, next) ==
    /\ wrappers' = Store(wrappers, i, nw)
    /\ rng' = [rng EXCEPT ![i] = r.rngd]
    /\ calls' = [calls EXCEPT ![i] = @ \o [k \in 1 .. Len(r.on) |-> <<Cycle, r.on[k]>>]]
    /\ pushes' = [pushes EXCEPT ![i] = IF QueueLen(nw) > QueueLen(wrappers[i])
                                       THEN @ + 1 ELSE @]
    /\ pops' = [pops EXCEPT ![i] = IF QueueLen(nw) < QueueLen(wrappers[i])
                                   THEN @ + 1 ELSE @]
    /\ pushed' = [pushed EXCEPT ![i] = IF QueueLen(nw) > QueueLen(wrappers[i])
                                       THEN Append(@, LastCheckpoint(nw)) ELSE @]
    /\ popped' = [popped EXCEPT ![i] = IF QueueLen(nw) < QueueLen(wrappers[i])
                                       THEN Append(@, FirstCheckpoint(wrappers[i]))
                                       ELSE @]
    /\ IF r.err = NoError
       THEN /\ x' = r.out
            /\ pos' = next
            /\ UNCHANGED <<pc, error>>
       ELSE /\ error' = r.err
            /\ pc' = "failed"
            /\ UNCHANGED <<x, pos>>
    /\ UNCHANGED <<num_gpus, num_runs, count, cur_mode, results, output,
                   fwdCycles, revCycles, startQueues, lastCall,
                   followsTrain, runMode, prevRun, unitVars>>

set_mode(m) ==
    /\ pc = "idle"
    /\ cur_mode' = m
    /\ UNCHANGED <<num_gpus, num_runs, count, wrappers, rng, pc, pos, x, results,
                   output, error, calls, pushes, pops, fwdCycles, revCycles,
                   startQueues, lastCall,
                   followsTrain, ghostVars, unitVars>>

\* run_forward(batch), up to its first cycle: the batch has m micro-batches.
run_forward(m) ==
    /\ pc = "idle"
    /\ cur_mode \in {"eval", "train"}
    /\ \A i \in Ranks : /\ Len(wrappers[i].activations) <= MaxQueue
                        /\ Len(wrappers[i].rng_states) <= MaxQueue
    /\ wrappers' = FinishedPropAll(wrappers)
    /\ num_runs' = m
    /\ count' = 0
    /\ pc' = "forward"
    /\ pos' = 0
    /\ x' = MicroBatch(0, m)
    /\ results' = <<>>
    /\ output' = <<>>
    /\ error' = NoError
    /\ calls' = [i \in Ranks |-> <<>>]
    /\ pushes' = Zeros
    /\ pops' = Zeros
    /\ fwdCycles' = 0
    /\ revCycles' = 0
    /\ startQueues' = [i \in Ranks |-> QueueLen(wrappers[i])]
    /\ lastCall' = "forward"
    /\ followsTrain' = FALSE
    /\ runMode' = cur_mode
    /\ prevRun' = IF lastCall = "forward"
                  THEN [completed |-> TRUE, mode |-> runMode, m |-> num_runs,
                        output |-> output, error |-> error,
                        queues |-> Queues(wrappers)]
                  ELSE NoRun
    /\ pushed' = NoneYet
    /\ popped' = NoneYet
    /\ UNCHANGED <<num_gpus, cur_mode, rng, unitVars>>

EntryForward ==
    /\ pc = "forward"
    /\ pos = 0
    /\ LET r == ActivationSavingLayer_forward(wrappers[0], Tuple(<<x>>), rng[0])
       IN  StageStep(r, 0, r.w, 1)

LayerForward ==
    /\ pc = "forward"
    /\ pos = 1
    /\ LET r == LayerWrapper_forward(0, Tuple(<<x>>), rng[0])
       IN  StageStep(r, 0, wrappers[0], 2)

SyncForward(i) ==
    /\ pc = "forward"
    /\ i >= 1
    /\ i < num_gpus
    /\ pos = i + 1
    /\ LET r == SyncWrapper_forward(wrappers[i], i, Tuple(<<x>>), rng[i])
       IN  StageStep(r, i, r.w, i + 2)

\* The end of a forward cycle: collect the last stage's real output, advance.
ForwardCycleEnd ==
    /\ pc = "forward"
    /\ pos = EndPos
    /\ results' = IF output_valid(num_gpus - 1) THEN Append(results, x) ELSE results
    /\ IF advance_error # NoError
       THEN /\ error' = advance_error
            /\ pc' = "failed"
            /\ UNCHANGED <<count, fwdCycles, pos, x>>
       ELSE /\ count' = advance
            /\ fwdCycles' = fwdCycles + 1
            /\ error' = error
            /\ IF advance = F
               THEN pc' = "forward_done" /\ UNCHANGED <<pos, x>>
               ELSE pc' = pc /\ pos' = 0 /\ x' = MicroBatch(advance, num_runs)
    /\ UNCHANGED <<num_gpus, num_runs, cur_mode, wrappers, rng, output, calls,
                   pushes, pops, revCycles, startQueues, lastCall,
                   followsTrain, ghostVars, unitVars>>

ForwardReturn ==
    /\ pc = "forward_done"
    /\ output' = results
    /\ pc' = "idle"
    /\ UNCHANGED <<num_gpus, num_runs, count, cur_mode, wrappers, rng, pos, x,
                   results, error, calls, pushes, pops, fwdCycles, revCycles,
                   startQueues, lastCall,
                   followsTrain, ghostVars, unitVars>>

\* A stage failed: reset every stage with finished_prop and surface the error.
Abort ==
    /\ pc = "failed"
    /\ wrappers' = FinishedPropAll(wrappers)
    /\ pc' = "idle"
    /\ UNCHANGED <<num_gpus, num_runs, count, cur_mode, rng, pos, x, results,
                   output, error, calls, pushes, pops, fwdCycles, revCycles,
                   startQueues, lastCall,
                   followsTrain, ghostVars, unitVars>>

\* run_reverse(batch_grad), up to its first cycle.
run_reverse ==
    /\ pc = "idle"
    /\ cur_mode' = "backward"
    /\ count' = 0
    /\ pc' = "reverse"
    /\ pos' = FirstReversePos
    /\ x' = GradBatch(F - 1)
    /\ error' = NoError
    /\ pops' = Zeros
    /\ revCycles' = 0
    /\ startQueues' = [i \in Ranks |-> QueueLen(wrappers[i])]
    /\ lastCall' = "reverse"
    /\ followsTrain' = (lastCall = "forward" /\ cur_mode = "train" /\ error = NoError)
    /\ popped' = NoneYet
    /\ UNCHANGED <<num_gpus, num_runs, wrappers, rng, results, output, calls,
                   pushes, fwdCycles, runMode, prevRun, pushed, unitVars>>

SyncReverse(i) ==
    /\ pc = "reverse"
    /\ i >= 1
    /\ i < num_gpus
    /\ pos = i + 1
    /\ \E reached \in BOOLEAN :
          LET r == SyncWrapper_reverse(wrappers[i], i, Tuple(<<x>>), rng[i], reached)
          IN  StageStep(r, i, r.w, IF i > 1 THEN i ELSE 0)

EntryReverse ==
    /\ pc = "reverse"
    /\ pos = 0
    /\ LET r == ActivationSavingLayer_reverse(wrappers[0], Tuple(<<x>>), rng[0])
       IN  StageStep(r, 0, r.w, EndPos)

ReverseCycleEnd ==
    /\ pc = "reverse"
    /\ pos = EndPos
    /\ IF advance_error # NoError
       THEN /\ error' = advance_error
            /\ pc' = "failed"
            /\ UNCHANGED <<count, revCycles, pos, x>>
       ELSE /\ count' = advance
            /\ revCycles' = revCycles + 1
            /\ error' = error
            /\ IF advance = F
               THEN pc' = "reverse_done" /\ UNCHANGED <<pos, x>>
               ELSE pc' = pc /\ pos' = FirstReversePos /\ x' = GradBatch(F - 1 - advance)
    /\ UNCHANGED <<num_gpus, num_runs, cur_mode, wrappers, rng, results, output,
                   calls, pushes, pops, fwdCycles, startQueues, lastCall,
                   followsTrain, ghostVars, unitVars>>

\* After the reverse sweep: finished_prop() on every stage.
ReverseReturn ==
    /\ pc = "reverse_done"
    /\ wrappers' = FinishedPropAll(wrappers)
    /\ pc' = "idle"
    /\ UNCHANGED <<num_gpus, num_runs, count, cur_mode, rng, pos, x, results,
                   output, error, calls, pushes, pops, fwdCycles, revCycles,
                   startQueues, lastCall,
                   followsTrain, ghostVars, unitVars>>

Next ==
    \/ \E m \in {"eval", "train"} : set_mode(m)
    \/ \E m \in 1 .. MaxM : run_forward(m)
    \/ EntryForward
    \/ LayerForward
    \/ \E i \in Ranks : SyncForward(i)
    \/ ForwardCycleEnd
    \/ ForwardReturn
    \/ Abort
    \/ run_reverse
    \/ \E i \in Ranks : SyncReverse(i)
    \/ EntryReverse
    \/ ReverseCycleEnd
    \/ ReverseReturn

Spec == Init /\ [][Next]_vars

(***************************************************************************)
(* The stages called one at a time.  A stage is built with a counter and   *)
(* its methods are called at any cycle of any phase (spec.md 9): the       *)
(* counter is walked by a reset to the start of a phase and by advance(),  *)
(* and the stage at position pos (0 the ActivationSavingLayer, 1 the       *)
(* LayerWrapper of rank 0, i + 1 the SyncWrapper of rank i) is called with *)
(* an input as its predecessor hands one over.  What a SyncWrapper puts on *)
(* its pipe_stream completes at a time of its own.                         *)
(***************************************************************************)
Stages == 0 .. (num_gpus - 1)

\* The rank of the stage at the driver's position.
RankAtPos == IF pos = 0 THEN 0 ELSE pos - 1

\* The cycles of the phase up to the current one on which v holds now.
ValidNow(v) == IF count < F /\ v THEN {Cycle} ELSE {}

\* What the stage at pos may be handed: a placeholder or the first
\* micro-batch with the operators of the lower ranks applied (a slice of the
\* batch for the ActivationSavingLayer), on the device of its predecessor;
\* for a SyncWrapper also that micro-batch on the wrapper's own device.
UnitInputs ==
    LET d == IF pos = 0 THEN HostDevice ELSE IF pos = 1 THEN 0 ELSE pos - 2
        o == IF pos <= 1 THEN <<>> ELSE [j \in 1 .. (pos - 1) |-> j - 1]
    IN  {gen_garbage_output(d), Tensor(0, o, d)}
            \cup (IF pos >= 2 THEN {Tensor(0, o, pos - 1)} ELSE {})

UnitInit ==
    /\ num_gpus \in 1 .. MaxN
    /\ num_runs \in 1 .. MaxM
    /\ count = 0
    /\ cur_mode = "eval"
    /\ wrappers = [i \in Ranks |-> NewWrapper]
    /\ rng = [i \in Ranks |-> 0]
    /\ pc = "unit"
    /\ pos \in 0 .. num_gpus
    /\ x = None
    /\ results = <<>>
    /\ output = <<>>
    /\ error = NoError
    /\ calls = [i \in Ranks |-> <<>>]
    /\ pushes = Zeros
    /\ pops = Zeros
    /\ fwdCycles = 0
    /\ revCycles = 0
    /\ startQueues = Zeros
    /\ lastCall = "none"
    /\ followsTrain = FALSE
    /\ runMode = "none"
    /\ prevRun = NoRun
    /\ pushed = NoneYet
    /\ popped = NoneYet
    /\ inflight = [i \in Ranks |-> FALSE]
    /\ raced = FALSE
    /\ outCycles = [i \in Ranks |-> ValidNow(output_valid(i))]
    /\ inCycles = [i \in Ranks |-> ValidNow(input_valid(i))]
    /\ sameObject \in BOOLEAN
    /\ arg = None
    /\ batch = NoStructure
    /\ size = 1
    /\ micro_batches = <<>>
    /\ joined = NoStructure
    /\ buffered = NoneAttr
    /\ arrived = NoneAttr
    /\ merged = Pending
    /\ ExtIdle

\* A call may be made: no call has raised, no read has raced.
Callable == pc = "unit" /\ error = NoError /\ ~raced

\* A stage is called in a cycle of the phase.
InPhase == Callable /\ count < F

\* What the driver's runs record stays as it is.
driverVars ==
    <<pc, pos, results, output, pushes, pops, fwdCycles,
      revCycles, startQueues, followsTrain, ghostVars, sameObject, utilVars,
      extVars>>

\* The counter at the start of a phase in mode m.
counter_reset(m) ==
    /\ Callable
    /\ UNCHANGED <<driverVars, num_gpus, num_runs, wrappers, rng, error,
                   inflight, raced>>
    /\ x' = None
    /\ arg' = None
    /\ calls' = NoneYet
    /\ cur_mode' = m
    /\ count' = 0
    /\ lastCall' = "none"
    /\ outCycles' = [i \in Ranks |-> ValidNow(output_valid(i))']
    /\ inCycles' = [i \in Ranks |-> ValidNow(input_valid(i))']

\* advance()
counter_advance ==
    /\ Callable
    /\ UNCHANGED <<driverVars, num_gpus, num_runs, cur_mode, wrappers, rng,
                   inflight, raced>>
    /\ x' = None
    /\ arg' = None
    /\ calls' = NoneYet
    /\ lastCall' = "advance"
    /\ IF advance_error # NoError
       THEN /\ error' = advance_error
            /\ UNCHANGED <<count, outCycles, inCycles>>
       ELSE /\ count' = advance
            /\ error' = error
            /\ outCycles' = [i \in Ranks |->
                                outCycles[i] \cup ValidNow(output_valid(i))']
            /\ inCycles' = [i \in Ranks |->
                               inCycles[i] \cup ValidNow(input_valid(i))']

\* A method of the stage of rank i has been called and left r; nw is the
\* wrapper's fields afterwards, outs what the call may return; calls holds
\* the operator calls it made.
UnitStep(r, i, nw, outs, name) ==
    /\ wrappers' = Store(wrappers, i, nw)
    /\ num_gpus' = counter_after_stage_call.num_gpus
    /\ num_runs' = counter_after_stage_call.num_runs
    /\ count' = counter_after_stage_call.count
    /\ cur_mode' = counter_after_stage_call.cur_mode
    /\ rng' = [rng EXCEPT ![i] = r.rngd]
    /\ calls' = [calls EXCEPT ![i] = [k \in 1 .. Len(r.on) |-> <<Cycle, r.on[k]>>]]
    /\ error' = r.err
    /\ x' \in (IF r.err = NoError THEN outs ELSE {None})
    /\ lastCall' = name
    /\ UNCHANGED <<driverVars, outCycles, inCycles>>

\* No queue grows past the bound: only forward-train saves.
QueueRoom(i) ==
    cur_mode = "train" =>
        /\ Len(wrappers[i].activations) < MaxUnitQueue
        /\ Len(wrappers[i].rng_states) < MaxUnitQueue

EntryCall ==
    /\ InPhase
    /\ pos = 0
    /\ QueueRoom(0)
    /\ \E input \in UnitInputs :
          LET r == ActivationSavingLayer_forward(wrappers[0], Tuple(<<input>>), rng[0])
          IN  UnitStep(r, 0, r.w, {r.out}, "forward") /\ arg' = input
    /\ UNCHANGED <<inflight, raced>>

LayerCall ==
    /\ InPhase
    /\ pos = 1
    /\ \E input \in UnitInputs :
          LET r == LayerWrapper_forward(0, Tuple(<<input>>), rng[0])
          IN  UnitStep(r, 0, wrappers[0], {r.out}, "forward") /\ arg' = input
    /\ UNCHANGED <<inflight, raced>>

\* The operator of a SyncWrapper reads the buffered input (lines 127-130).
reads_prev_inputs(r) == cur_mode # "backward" /\ output_valid(RankAtPos) /\ r.err = NoError

\* A SyncWrapper puts the transfer of its inputs on its pipe_stream (lines
\* 141-152).
starts_transfer(r) == cur_mode # "backward" /\ input_valid(RankAtPos) /\ r.err = NoError

\* forward of a SyncWrapper.  Nothing makes the operator wait for the
\* pipe_stream: when it reads a buffered input whose transfer is not complete
\* it computes on that input or on what the memory held before.
SyncCall ==
    /\ InPhase
    /\ pos >= 2
    /\ QueueRoom(RankAtPos)
    /\ \E input \in UnitInputs :
          LET i == RankAtPos
              r == SyncWrapper_forward(wrappers[i], i, Tuple(<<input>>), rng[i])
              race == reads_prev_inputs(r) /\ inflight[i]
          IN  /\ UnitStep(r, i, r.w,
                          IF race
                          THEN {r.out, module(i, Tuple(<<gen_garbage_output(i)>>))}
                          ELSE {r.out},
                          "forward")
              /\ arg' = input
              /\ raced' = race
              /\ inflight' = [inflight EXCEPT ![i] = @ \/ starts_transfer(r)]

\* The work on the pipe_stream of the SyncWrapper completes.
TransferComplete ==
    /\ pc = "unit"
    /\ pos >= 2
    /\ inflight[RankAtPos]
    /\ inflight' = [inflight EXCEPT ![RankAtPos] = FALSE]
    /\ lastCall' = "none"
    /\ UNCHANGED <<driverVars, num_gpus, num_runs, count, cur_mode, wrappers,
                   rng, x, error, calls, raced, outCycles, inCycles, arg>>

PopCall ==
    /\ InPhase
    /\ pos # 1
    /\ LET i == RankAtPos
           r == IF pos = 0
                THEN ActivationSavingLayer_pop_activation(wrappers[i], rng[i])
                ELSE SyncWrapper_pop_activation(wrappers[i], i, rng[i])
       IN  UnitStep(r, i, r.w, {None}, "pop_activation")
    /\ arg' = None
    /\ UNCHANGED <<inflight, raced>>

UpdateGradsCall ==
    /\ InPhase
    /\ pos >= 2
    /\ \E reached \in BOOLEAN :
          LET i == RankAtPos
              r == SyncWrapper_update_grads(wrappers[i], i, rng[i], reached)
          IN  UnitStep(r, i, r.w, {None}, "update_grads")
    /\ arg' = None
    /\ UNCHANGED <<inflight, raced>>

FinishedPropCall ==
    /\ InPhase
    /\ pos # 1
    /\ LET i == RankAtPos
           nw == IF pos = 0 THEN ActivationSavingLayer_finished_prop(wrappers[i])
                            ELSE SyncWrapper_finished_prop(wrappers[i])
       IN  UnitStep(Res(NoError, nw, None, rng[i], <<>>), i, nw, {None}, "finished_prop")
    /\ arg' = None
    /\ UNCHANGED <<inflight, raced>>

\* The reverse step of a stage in a cycle of the reverse phase (spec.md 4.2,
\* 4.4): update_grads, pop_activation and forward for a SyncWrapper,
\* pop_activation and forward for the ActivationSavingLayer.
ReverseCall ==
    /\ InPhase
    /\ cur_mode = "backward"
    /\ pos # 1
    /\ \E input \in UnitInputs, reached \in BOOLEAN :
          LET i == RankAtPos
              r == IF pos = 0
                   THEN ActivationSavingLayer_reverse(wrappers[i], Tuple(<<input>>), rng[i])
                   ELSE SyncWrapper_reverse(wrappers[i], i, Tuple(<<input>>), rng[i], reached)
          IN  UnitStep(r, i, r.w, {r.out}, "reverse") /\ arg' = input
    /\ UNCHANGED <<inflight, raced>>

UnitNext ==
    \/ \E m \in {"eval", "train", "backward"} : counter_reset(m)
    \/ counter_advance
    \/ EntryCall
    \/ LayerCall
    \/ SyncCall
    \/ TransferComplete
    \/ PopCall
    \/ UpdateGradsCall
    \/ FinishedPropCall
    \/ ReverseCall

UnitSpec == UnitInit /\ [][UnitNext]_vars

(***************************************************************************)
(* The tensor helpers called on their own: tensors_split on a batch and a  *)
(* micro-batch size, tensors_cat on what it returned, and the merge of     *)
(* SyncWrapper.forward (line 127) on a prev_inputs and the inputs of a     *)
(* call.                                                                   *)
(***************************************************************************)
\* A tensor of b rows; the rows of the tensor in slot k are numbered from
\* 10 * k.
RowsOf(k, b) == Rows([n \in 1 .. b |-> 10 * k + n])

\* Batches of b rows: a tensor, a tuple of two tensors, a list of a tensor,
\* and a tuple of a tensor and a list of two tensors.
Batches(b) ==
    { RowsOf(0, b),
      Container("tuple", <<RowsOf(0, b), RowsOf(1, b)>>),
      Container("list", <<RowsOf(0, b)>>),
      Container("tuple", <<RowsOf(0, b),
                           Container("list", <<RowsOf(1, b), RowsOf(2, b)>>)>>) }

\* A prev_inputs of n slots: each slot None or a tensor on the wrapper's
\* device; or None as a whole, as __init__ and finished_prop leave it.
BufferedOf(n) ==
    {Tuple(sl) : sl \in [1 .. n -> {None, Tensor(0, <<>>, 1)}]}

\* The inputs of a call, n tensors from the device before.
ArrivedOf(n) == Tuple([k \in 1 .. n |-> Tensor(1, <<>>, 0)])

UtilInit ==
    /\ num_gpus = 2
    /\ num_runs = 1
    /\ count = 0
    /\ cur_mode = "eval"
    /\ wrappers = [i \in Ranks |-> NewWrapper]
    /\ rng = [i \in Ranks |-> 0]
    /\ pc = "util"
    /\ pos = 0
    /\ x = None
    /\ results = <<>>
    /\ output = <<>>
    /\ error = NoError
    /\ calls = [i \in Ranks |-> <<>>]
    /\ pushes = Zeros
    /\ pops = Zeros
    /\ fwdCycles = 0
    /\ revCycles = 0
    /\ startQueues = Zeros
    /\ lastCall = "none"
    /\ followsTrain = FALSE
    /\ runMode = "none"
    /\ prevRun = NoRun
    /\ pushed = NoneYet
    /\ popped = NoneYet
    /\ inflight = [i \in Ranks |-> FALSE]
    /\ raced = FALSE
    /\ outCycles = [i \in Ranks |-> {}]
    /\ inCycles = [i \in Ranks |-> {}]
    /\ sameObject = FALSE
    /\ arg = None
    /\ \E b \in 1 .. MaxRows : batch \in Batches(b)
    /\ size \in 1 .. MaxSize
    /\ micro_batches = <<>>
    /\ joined = NoStructure
    /\ \E n \in 1 .. MaxSlots :
          /\ buffered \in BufferedOf(n) \cup {NoneAttr}
          /\ arrived = ArrivedOf(n)
    /\ merged = Pending
    /\ ExtIdle

\* The stages and the counter are not involved.
stageVars ==
    <<num_gpus, num_runs, count, cur_mode, wrappers, rng, pc, pos, x,
      results, output, error, calls, pushes, pops, fwdCycles, revCycles,
      startQueues, followsTrain, ghostVars, inflight, raced, outCycles,
      inCycles, sameObject, arg, extVars>>

\* tensors_split(batch, size)
SplitCall ==
    /\ pc = "util"
    /\ micro_batches = <<>>
    /\ micro_batches' = tensors_split(batch, size)
    /\ lastCall' = "tensors_split"
    /\ UNCHANGED <<stageVars, batch, size, joined, buffered, arrived, merged>>

\* tensors_cat on what tensors_split returned
CatCall ==
    /\ pc = "util"
    /\ micro_batches # <<>>
    /\ joined = NoStructure
    /\ joined' = tensors_cat(micro_batches)
    /\ lastCall' = "tensors_cat"
    /\ UNCHANGED <<stageVars, batch, size, micro_batches, buffered, arrived, merged>>

\* tensors_bi_map(self.prev_inputs, inputs, lambda t1, t2: t2 if t1 is None
\* else t1)
MergeCall ==
    /\ pc = "util"
    /\ merged = Pending
    /\ merged' = tensors_bi_map(buffered, arrived, prefer_first(buffered, arrived))
    /\ lastCall' = "merge"
    /\ UNCHANGED <<stageVars, batch, size, micro_batches, joined, buffered, arrived>>

UtilNext ==
    \/ SplitCall
    \/ CatCall
    \/ MergeCall

UtilSpec == UtilInit /\ [][UtilNext]_vars

(***************************************************************************)
(* DeviceDelayer (sync_wrapper.py 282-327), called on its own: one forward *)
(* per cycle of a forward phase, as the driver calls a stage.  The         *)
(* delayer is on device 0; the tensor in slot k of its input arrives from  *)
(* the source device k and carries the cycle of its arrival as its         *)
(* micro-batch.  forward hands `inputs` to the chain as one argument, so   *)
(* every block receives a one-element tuple holding the tuple of tensors;  *)
(* tensors_map and tensors_bi_map recurse through the outer tuple and      *)
(* Identity returns its one element, which leaves the inner tuple modelled *)
(* here.                                                                   *)
(***************************************************************************)
MaxDelay == 2    \* delays 0..MaxDelay

DelayerDevice == 0

SourceDevices == {1, 2}

\* max(device_delays.values())
RECURSIVE max_of(_)
max_of(S) ==
    IF S = {} THEN 0
    ELSE LET v == CHOOSE v \in S : TRUE
             m == max_of(S \ {v})
         IN  IF v >= m THEN v ELSE m

\* DeviceDelayer.__init__ (lines 298-303): block idx delays the devices
\* whose delay is above idx; the blocks are numbered from 1 here.
DeviceDelayer_init(delays) ==
    LET num_blocks == max_of({delays[d] : d \in DOMAIN delays})
    IN  [idx \in 1 .. num_blocks |->
            [w |-> NewWrapper,
             delay_devices |-> {d \in DOMAIN delays : idx - 1 < delays[d]}]]

\* DeviceDelayerBlock.delay_device
DeviceDelayerBlock_delay_device(b, tensor) == tensor.dev \in b.delay_devices

\* What a block's forward leaves: the error, the block's wrapper fields and
\* the Tensors handed to the next block.
BlockRes(err, w, out) == [err |-> err, w |-> w, out |-> out]

\* Lines 138-156 of SyncWrapper.forward in a block.
DeviceDelayerBlock_keep_inputs(b, inputs, out) ==
    IF input_valid(gpu_num)
    THEN LET w1 == IF get_count = gpu_num
                   THEN [b.w EXCEPT !.input_devices = get_devices(inputs)]
                   ELSE b.w
             m == tensors_map(inputs,
                              [tensor \in SlotsOf(inputs) |->
                                  IF ~DeviceDelayerBlock_delay_device(b, tensor)
                                  THEN None
                                  ELSE to(tensor, DelayerDevice)])
         IN  IF m.err # NoError
             THEN BlockRes(m.err, w1, NoneAttr)
             ELSE IF cur_mode = "train"
                  THEN LET s == SyncWrapper_save_activation(w1, m.val, 0)
                       IN  IF s.err # NoError
                           THEN BlockRes(s.err, s.w, NoneAttr)
                           ELSE BlockRes(NoError, [s.w EXCEPT !.prev_inputs = m.val],
                                         out)
                  ELSE BlockRes(NoError, [w1 EXCEPT !.prev_inputs = m.val], out)
    ELSE LET n == tensors_map(inputs, [t \in SlotsOf(inputs) |-> None])
         IN  IF n.err # NoError
             THEN BlockRes(n.err, b.w, NoneAttr)
             ELSE BlockRes(NoError, [b.w EXCEPT !.prev_inputs = n.val], out)

\* gen_garbage_output for the shapes of the delayer's inputs.
garbage_like(inputs) ==
    Tuple([k \in DOMAIN inputs.slots |-> gen_garbage_output(DelayerDevice)])

\* SyncWrapper.forward (lines 118-156) in a block, in a forward mode; the
\* wrapped module is Identity.
DeviceDelayerBlock_forward(b, inputs) ==
    IF output_valid(gpu_num)
    THEN LET u == tensors_bi_map(b.w.prev_inputs, inputs,
                                 prefer_first(b.w.prev_inputs, inputs))
         IN  IF u.err # NoError
             THEN BlockRes(u.err, b.w, NoneAttr)
             ELSE DeviceDelayerBlock_keep_inputs(b, inputs, u.val)
    ELSE DeviceDelayerBlock_keep_inputs(b, inputs, garbage_like(inputs))

\* nn.Sequential(*self.delay_blocks): block k and the blocks after it.
RECURSIVE delayer(_, _, _)
delayer(blocks, k, inputs) ==
    IF k > Len(blocks)
    THEN [err |-> NoError, blocks |-> blocks, out |-> inputs]
    ELSE LET r == DeviceDelayerBlock_forward(blocks[k], inputs)
             bs == [blocks EXCEPT ![k].w = r.w]
         IN  IF r.err # NoError
             THEN [err |-> r.err, blocks |-> bs, out |-> NoneAttr]
             ELSE delayer(bs, k + 1, r.out)

\* DeviceDelayer.forward
DeviceDelayer_forward(inputs) == delayer(delay_blocks, 1, inputs)

\* DeviceDelayer.finished_prop
DeviceDelayer_finished_prop ==
    [k \in DOMAIN delay_blocks |->
        [delay_blocks[k] EXCEPT !.w = SyncWrapper_finished_prop(@)]]

\* The tensors that arrive in the current cycle, one from each source device.
Arriving == Tuple([k \in 1 .. Cardinality(SourceDevices) |-> Tensor(count, <<>>, k)])

\* What the delayer leaves alone.
pipelineVars ==
    <<wrappers, rng, pos, x, results, output, calls, pushes, pops, fwdCycles,
      revCycles, startQueues, followsTrain, ghostVars, inflight, raced,
      outCycles, inCycles, sameObject, arg, utilVars>>

PipelineIdle ==
    /\ wrappers = [i \in Ranks |-> NewWrapper]
    /\ rng = [i \in Ranks |-> 0]
    /\ pos = 0
    /\ x = None
    /\ results = <<>>
    /\ output = <<>>
    /\ calls = [i \in Ranks |-> <<>>]
    /\ pushes = Zeros
    /\ pops = Zeros
    /\ fwdCycles = 0
    /\ revCycles = 0
    /\ startQueues = Zeros
    /\ followsTrain = FALSE
    /\ runMode = "none"
    /\ prevRun = NoRun
    /\ pushed = NoneYet
    /\ popped = NoneYet
    /\ inflight = [i \in Ranks |-> FALSE]
    /\ raced = FALSE
    /\ outCycles = [i \in Ranks |-> {}]
    /\ inCycles = [i \in Ranks |-> {}]
    /\ sameObject = FALSE
    /\ arg = None
    /\ batch = NoStructure
    /\ size = 1
    /\ micro_batches = <<>>
    /\ joined = NoStructure
    /\ buffered = NoneAttr
    /\ arrived = NoneAttr
    /\ merged = Pending

DelayerInit ==
    /\ PipelineIdle
    /\ num_gpus \in 1 .. MaxN
    /\ num_runs \in 1 .. MaxM
    /\ count = 0
    /\ cur_mode \in {"eval", "train"}
    /\ pc = "delayer"
    /\ error = NoError
    /\ lastCall = "none"
    /\ WrapIdle
    /\ GraphIdle
    /\ gpu_num \in 0 .. (num_gpus - 1)
    /\ device_delays \in [SourceDevices -> 0 .. MaxDelay]
    /\ delay_blocks = DeviceDelayer_init(device_delays)
    /\ emerged = Pending

\* One cycle of a forward phase: the delayer's forward, then the counter's
\* advance.
DelayerForward ==
    /\ pc = "delayer"
    /\ error = NoError
    /\ count < F
    /\ LET r == DeviceDelayer_forward(Arriving)
       IN  /\ delay_blocks' = r.blocks
           /\ error' = r.err
           /\ emerged' = IF r.err = NoError THEN Return(r.out) ELSE Raise(r.err)
           /\ count' = IF r.err = NoError THEN advance ELSE count
    /\ lastCall' = "delayer"
    /\ UNCHANGED <<pipelineVars, wrapVars, graphVars, num_gpus, num_runs,
                   cur_mode, pc, device_delays, gpu_num>>

\* The end of the phase: finished_prop, and the counter reset for the next
\* batch, which runs in either forward mode.
DelayerFinished ==
    /\ pc = "delayer"
    /\ error = NoError
    /\ count = F
    /\ delay_blocks' = DeviceDelayer_finished_prop
    /\ count' = 0
    /\ cur_mode' \in {"eval", "train"}
    /\ emerged' = Pending
    /\ lastCall' = "finished_prop"
    /\ UNCHANGED <<pipelineVars, wrapVars, graphVars, num_gpus, num_runs, pc,
                   error, device_delays, gpu_num>>

DelayerNext ==
    \/ DelayerForward
    \/ DelayerFinished

DelayerSpec == DelayerInit /\ [][DelayerNext]_vars

(***************************************************************************)
(* wrap_layers (model_partition/distribute_to_gpus.py 73-86).  A device is *)
(* "cuda:n"; Python passes arguments by position, so a constructor's       *)
(* parameter holds whatever the caller put in its place, an int or a       *)
(* device.                                                                 *)
(***************************************************************************)
MaxLayers == 2    \* layer scopes 1..MaxLayers
MaxDevices == 2   \* device lists of 1..MaxDevices devices

Integer(n) == [kind |-> "int", n |-> n]

Device(n) == [kind |-> "device", n |-> n]

\* torch.device(d): the device itself, or "cuda:n" for an int n.
torch_device(d) == Device(d.n)

\* SyncWrapper.__init__(module, device, gpu_num, output_shapes, counter)
SyncWrapper_init(device, g) ==
    [class |-> "SyncWrapper", device |-> torch_device(device), gpu_num |-> g]

\* LayerWrapper.__init__(module, gpu_num, device, output_shapes, counter)
LayerWrapper_init(g, device) ==
    [class |-> "LayerWrapper", gpu_num |-> g, device |-> torch_device(device)]

\* device_lst.index(layer_device), counted from 0
index(lst, d) == (CHOOSE k \in DOMAIN lst : lst[k] = d) - 1

\* The body of the loop of wrap_layers for one layer: the wrapper installed.
wrap_layer(layer_scope) ==
    LET layer_device == top_scopes_to_device[layer_scope]
        g == Integer(index(device_lst, layer_device))
    IN  IF layer_scope \in part_inputs /\ g # Integer(0)
        THEN SyncWrapper_init(layer_device, g)
        ELSE LayerWrapper_init(layer_device, g)

\* Lists of distinct devices "cuda:0" .. "cuda:MaxDevices".
DeviceLists ==
    UNION {{l \in [1 .. n -> {Device(k) : k \in 0 .. MaxDevices}] :
               \A i, j \in 1 .. n : i # j => l[i] # l[j]} : n \in 1 .. MaxDevices}

WrapInit ==
    /\ PipelineIdle
    /\ DelayerIdle
    /\ GraphIdle
    /\ num_gpus = 1
    /\ num_runs = 1
    /\ count = 0
    /\ cur_mode = "eval"
    /\ pc = "wrap"
    /\ error = NoError
    /\ lastCall = "none"
    /\ device_lst \in DeviceLists
    /\ \E n \in 1 .. MaxLayers :
          /\ top_scopes_to_device \in
                [1 .. n -> {device_lst[k] : k \in DOMAIN device_lst}]
          /\ part_inputs \in SUBSET (1 .. n)
    /\ installed = <<>>

\* wrap_layers(layers, top_scopes_to_device, device_lst, part_inputs, counter)
WrapLayers ==
    /\ pc = "wrap"
    /\ installed = <<>>
    /\ installed' = [scope \in DOMAIN top_scopes_to_device |-> wrap_layer(scope)]
    /\ lastCall' = "wrap_layers"
    /\ UNCHANGED <<pipelineVars, delayerVars, graphVars, num_gpus, num_runs,
                   count, cur_mode, pc, error, device_lst, top_scopes_to_device,
                   part_inputs>>

WrapSpec == WrapInit /\ [][WrapLayers]_vars

(***************************************************************************)
(* post_process_partition (pytorch_Gpipe/model_partitioning/               *)
(* process_partition.py).  A graph is its list of nodes, indexed by idx    *)
(* from 0; a node has a type, a part and its in_nodes, and its out_nodes   *)
(* are the nodes it is an in_node of.  The state below is the one after    *)
(* set_partition, with nparts the number of parts in use; the parts in use *)
(* are 0..nparts-1.                                                        *)
(***************************************************************************)
MaxNodes == 3    \* graphs of 1..MaxNodes nodes
MaxParts == 2    \* parts 0..MaxParts-1

NoPart == 0 - 1

out_nodes(g, v) == {w \in DOMAIN g : v \in g[w].in_nodes}

\* graph.nodes[u.idx].part = part for every u of a group
set_part(g, group, part) ==
    [v \in DOMAIN g |-> IF v \in group THEN [g[v] EXCEPT !.part = part] ELSE g[v]]

compute_comunication(g) ==
    Cardinality({e \in (DOMAIN g) \X (DOMAIN g) :
                    e[1] \in g[e[2]].in_nodes /\ g[e[1]].part # g[e[2]].part})

\* Lines 20-21: an OP node with its in_nodes.
group_of(g, v) == g[v].in_nodes \cup {v}

\* Lines 17-24: the groups that lie in more than one part, in node order.
RECURSIVE groups_from(_, _)
groups_from(g, v) ==
    IF v \notin DOMAIN g THEN <<>>
    ELSE (IF /\ g[v].type = "OP"
             /\ Cardinality({g[u].part : u \in group_of(g, v)}) > 1
          THEN <<group_of(g, v)>>
          ELSE <<>>) \o groups_from(g, v + 1)

\* Lines 29-40: the first part of range(nparts) with the least
\* communication when the whole group is put in it; -1 for no part.
best_part(g, group, np) ==
    IF np = 0 THEN NoPart
    ELSE CHOOSE p \in 0 .. (np - 1) :
             \A q \in 0 .. (np - 1) :
                 LET cp == compute_comunication(set_part(g, group, p))
                     cq == compute_comunication(set_part(g, group, q))
                 IN  cp < cq \/ (cp = cq /\ p <= q)

\* Lines 28-45.  The trials leave every node of the group in the part
\* tried last; the nodes still in nodes_left then get the best part.
RECURSIVE correct_groups(_, _, _, _)
correct_groups(g, groups, nodes_left, np) ==
    IF groups = <<>> THEN g
    ELSE LET group == Head(groups)
             tried == IF np > 0 THEN set_part(g, group, np - 1) ELSE g
             best == best_part(g, group, np)
         IN  correct_groups(set_part(tried, group \cap nodes_left, best),
                            Tail(groups), nodes_left \ group, np)

OP_inputs_partition_correction(g, np) ==
    correct_groups(g, groups_from(g, 0), DOMAIN g, np)

\* The nodes outside the component that an edge from v leads to.
leaving(g, comp, v) == out_nodes(g, v) \ comp

\* Lines 75-83: the part found for a split component.  The component and the
\* out_nodes are sets, walked in an order the source does not fix: the first
\* node outside the component that an edge of v leads to gives the part, and
\* the search goes on to the next v only if that part is -1.
output_parts(g, comp) ==
    ({g[o].part : o \in UNION {leaving(g, comp, v) : v \in comp}} \ {NoPart})
    \cup (IF \A v \in comp :
                leaving(g, comp, v) = {}
                \/ \E o \in leaving(g, comp, v) : g[o].part = NoPart
          THEN {NoPart} ELSE {})

\* The loop body of scc_partition_correction as it would be if it left a
\* split component as it is.
correct_scc_skips(g, comp) == {g}

\* Lines 66-86, the loop body of scc_partition_correction for one yielded
\* component: the graphs it can leave.
correct_scc(g, comp) ==
    IF Cardinality({g[v].part : v \in comp}) >= 2
    THEN {set_part(g, comp, p) : p \in output_parts(g, comp)}
    ELSE {g}

\* reversed(s)
reversed(s) == [k \in 1 .. Len(s) |-> s[Len(s) + 1 - k]]

\* The orders in which the elements of a set can be listed.
Orders(S) ==
    {s \in [1 .. Cardinality(S) -> S] : \A i, j \in DOMAIN s : i # j => s[i] # s[j]}

NoIndex == 0 - 1

\* Lines 90-93 and 59-63: the locals of the generator before its first step;
\* yielded lists the components it has yielded, moved holds those that
\* scc_partition_correction found split.
scc_start(g) ==
    [vi |-> 0, to_do |-> <<>>, stack |-> <<>>,
     index |-> [v \in DOMAIN g |-> NoIndex], boundaries |-> <<>>,
     identified |-> {}, yielded |-> <<>>, moved |-> {}]

\* Lines 114-115 as they would be if no boundary were popped.
pop_boundaries_keeps(b, iv) == b

\* Lines 114-115: while index[v] < boundaries[-1]: boundaries.pop()
RECURSIVE pop_boundaries(_, _)
pop_boundaries(b, iv) ==
    IF b = <<>> THEN b
    ELSE IF iv < b[Len(b)] THEN pop_boundaries(SubSeq(b, 1, Len(b) - 1), iv)
         ELSE b

Graphs(n) ==
    [0 .. (n - 1) -> [type : {"OP", "LAYER"}, part : 0 .. (MaxParts - 1),
                      in_nodes : SUBSET (0 .. (n - 1))]]

PartitionInit ==
    /\ PipelineIdle
    /\ DelayerIdle
    /\ WrapIdle
    /\ num_gpus = 1
    /\ num_runs = 1
    /\ count = 0
    /\ cur_mode = "eval"
    /\ pc = "op"
    /\ error = NoError
    /\ lastCall = "none"
    /\ \E n \in 1 .. MaxNodes : graph \in Graphs(n)
    /\ nparts = Cardinality({graph[v].part : v \in DOMAIN graph})
    /\ \A v \in DOMAIN graph : graph[v].part < nparts
    /\ scc = <<>>
    /\ bfs = <<>>
    /\ gen = <<>>

\* What the steps of post_process_partition leave alone.
partitionFrame ==
    <<pipelineVars, delayerVars, wrapVars, num_gpus, num_runs, count, cur_mode,
      nparts, bfs, gen>>

\* OP_inputs_partition_correction(graph, nparts), and the start of
\* scc_partition_correction.
OPCorrection ==
    /\ pc = "op"
    /\ graph' = OP_inputs_partition_correction(graph, nparts)
    /\ scc' = scc_start(graph)
    /\ pc' = "scc"
    /\ lastCall' = "OP_inputs_partition_correction"
    /\ UNCHANGED <<partitionFrame, error>>

\* Lines 95-97: the next vertex of the outer loop.
SccNextVertex ==
    /\ pc = "scc"
    /\ error = NoError
    /\ scc.to_do = <<>>
    /\ scc.vi \in DOMAIN graph
    /\ scc' = [scc EXCEPT !.vi = @ + 1,
                          !.to_do = IF scc.index[scc.vi] = NoIndex
                                    THEN <<<<"VISIT", scc.vi>>>> ELSE <<>>]
    /\ lastCall' = "scc"
    /\ UNCHANGED <<partitionFrame, graph, pc, error>>

\* The operation on top of to_do.
Top == scc.to_do[Len(scc.to_do)]

Popped == SubSeq(scc.to_do, 1, Len(scc.to_do) - 1)

\* Lines 100-109
SccVisit ==
    /\ pc = "scc"
    /\ error = NoError
    /\ scc.to_do # <<>>
    /\ Top[1] = "VISIT"
    /\ \E ws \in Orders(out_nodes(graph, Top[2])) :
          scc' = [scc EXCEPT
                     !.index[Top[2]] = Len(scc.stack),
                     !.stack = Append(@, Top[2]),
                     !.boundaries = Append(@, Len(scc.stack)),
                     !.to_do = Popped \o <<<<"POSTVISIT", Top[2]>>>>
                               \o reversed([k \in DOMAIN ws |-> <<"VISITEDGE", ws[k]>>])]
    /\ lastCall' = "scc"
    /\ UNCHANGED <<partitionFrame, graph, pc, error>>

\* Lines 110-115
SccVisitEdge ==
    /\ pc = "scc"
    /\ error = NoError
    /\ scc.to_do # <<>>
    /\ Top[1] = "VISITEDGE"
    /\ IF scc.index[Top[2]] = NoIndex
       THEN /\ scc' = [scc EXCEPT !.to_do = Append(Popped, <<"VISIT", Top[2]>>)]
            /\ error' = NoError
       ELSE IF Top[2] \notin scc.identified
            THEN LET b == pop_boundaries(scc.boundaries, scc.index[Top[2]])
                 IN  /\ scc' = [scc EXCEPT !.to_do = Popped, !.boundaries = b]
                     /\ error' = IF b = <<>> THEN IndexError ELSE NoError
            ELSE /\ scc' = [scc EXCEPT !.to_do = Popped]
                 /\ error' = NoError
    /\ lastCall' = "scc"
    /\ UNCHANGED <<partitionFrame, graph, pc>>

\* Lines 116-123, and for a yielded component the loop body of
\* scc_partition_correction (lines 66-86).
SccPostVisit ==
    /\ pc = "scc"
    /\ error = NoError
    /\ scc.to_do # <<>>
    /\ Top[1] = "POSTVISIT"
    /\ IF scc.boundaries = <<>>
       THEN /\ error' = IndexError
            /\ scc' = [scc EXCEPT !.to_do = Popped]
            /\ graph' = graph
       ELSE /\ error' = NoError
            /\ IF scc.boundaries[Len(scc.boundaries)] = scc.index[Top[2]]
               THEN LET from == scc.index[Top[2]]
                        comp == {scc.stack[k] : k \in (from + 1) .. Len(scc.stack)}
                    IN  /\ scc' = [scc EXCEPT
                                      !.to_do = Popped,
                                      !.boundaries = SubSeq(@, 1, Len(@) - 1),
                                      !.stack = SubSeq(@, 1, from),
                                      !.identified = @ \cup comp,
                                      !.yielded = Append(@, comp),
                                      !.moved =
                                          IF Cardinality({graph[v].part : v \in comp}) >= 2
                                          THEN @ \cup {comp} ELSE @]
                        /\ graph' \in correct_scc(graph, comp)
               ELSE /\ scc' = [scc EXCEPT !.to_do = Popped]
                    /\ graph' = graph
    /\ lastCall' = "scc"
    /\ UNCHANGED <<partitionFrame, pc>>

\* The outer loop has run out of vertices: the generator is exhausted and
\* scc_partition_correction returns.
SccDone ==
    /\ pc = "scc"
    /\ error = NoError
    /\ scc.to_do = <<>>
    /\ scc.vi \notin DOMAIN graph
    /\ pc' = "done"
    /\ lastCall' = "scc_partition_correction"
    /\ UNCHANGED <<partitionFrame, graph, scc, error>>

PartitionNext ==
    \/ OPCorrection
    \/ SccNextVertex
    \/ SccVisit
    \/ SccVisitEdge
    \/ SccPostVisit
    \/ SccDone

PartitionSpec == PartitionInit /\ [][PartitionNext]_vars

(***************************************************************************)
(* _partition_to_device (model_partition/distribute_to_gpus.py 147-167),   *)
(* called as wrap_and_move calls it: with the first nparts devices of the  *)
(* device list and the nodes of type IN.                                   *)
(***************************************************************************)
\* Line 17: the nodes of type IN from node v on, in node order.
RECURSIVE model_inputs(_, _)
model_inputs(g, v) ==
    IF v \notin DOMAIN g THEN <<>>
    ELSE (IF g[v].type = "IN" THEN <<v>> ELSE <<>>) \o model_inputs(g, v + 1)

\* Lines 149-153: the locals before the first iteration.  The mapping
\* part_to_device is kept as the list of the parts in the order in which
\* they were given their device.
bfs_start(g) ==
    [part_to_device |-> <<>>, num_taken |-> 0, open_nodes |-> model_inputs(g, 0),
     closed |-> {}, seen_parts |-> {}]

DeviceInit ==
    /\ PipelineIdle
    /\ DelayerIdle
    /\ num_gpus = 1
    /\ num_runs = 1
    /\ count = 0
    /\ cur_mode = "eval"
    /\ pc = "bfs"
    /\ error = NoError
    /\ lastCall = "none"
    /\ \E n \in 1 .. MaxNodes :
          graph \in [0 .. (n - 1) -> [type : {"IN", "LAYER"}, part : 0 .. (MaxParts - 1),
                                      in_nodes : SUBSET (0 .. (n - 1))]]
    /\ \E v \in DOMAIN graph : graph[v].type = "IN"
    /\ \A v \in DOMAIN graph : v \notin graph[v].in_nodes
    /\ nparts = Cardinality({graph[v].part : v \in DOMAIN graph})
    /\ \A v \in DOMAIN graph : graph[v].part < nparts
    /\ device_lst = [k \in 1 .. nparts |-> Device(k - 1)]
    /\ top_scopes_to_device = <<>>
    /\ part_inputs = {}
    /\ installed = <<>>
    /\ scc = <<>>
    /\ bfs = bfs_start(graph)
    /\ gen = <<>>

\* Lines 155-165: one iteration of the loop.  popleft on an empty deque
\* raises IndexError; the nodes added to open_nodes come from a set and are
\* appended in an order the source does not fix.
BfsStep ==
    /\ pc = "bfs"
    /\ error = NoError
    /\ bfs.num_taken < Len(device_lst)
    /\ IF bfs.open_nodes = <<>>
       THEN /\ error' = IndexError
            /\ bfs' = bfs
       ELSE LET node == Head(bfs.open_nodes)
                new == graph[node].part \notin bfs.seen_parts
                closed == bfs.closed \cup {node}
                rest == Tail(bfs.open_nodes)
                edges == out_nodes(graph, node) \cup graph[node].in_nodes
                fresh == (edges \ closed) \ {rest[k] : k \in DOMAIN rest}
            IN  /\ error' = NoError
                /\ \E added \in Orders(fresh) :
                      bfs' = [part_to_device |->
                                  IF new THEN Append(bfs.part_to_device, graph[node].part)
                                  ELSE bfs.part_to_device,
                              num_taken |-> IF new THEN bfs.num_taken + 1
                                            ELSE bfs.num_taken,
                              seen_parts |-> bfs.seen_parts \cup {graph[node].part},
                              closed |-> closed,
                              open_nodes |-> rest \o added]
    /\ lastCall' = "bfs"
    /\ UNCHANGED <<pipelineVars, delayerVars, wrapVars, num_gpus, num_runs, count,
                   cur_mode, pc, graph, nparts, scc, gen>>

\* Line 167: return part_to_device
BfsReturn ==
    /\ pc = "bfs"
    /\ error = NoError
    /\ bfs.num_taken >= Len(device_lst)
    /\ pc' = "done"
    /\ lastCall' = "_partition_to_device"
    /\ UNCHANGED <<pipelineVars, delayerVars, wrapVars, num_gpus, num_runs, count,
                   cur_mode, error, graph, nparts, scc, bfs, gen>>

DeviceNext ==
    \/ BfsStep
    \/ BfsReturn

DeviceSpec == DeviceInit /\ [][DeviceNext]_vars

(***************************************************************************)
(* generateStatements (module_generation/forward.py 74-114) for the        *)
(* partition of part 0.  The scope of a node is its idx; the nodes are     *)
(* numbered in trace order, so the in_nodes of a node come before it; IN   *)
(* and CONSTANT nodes have no in_nodes and every other node has some.      *)
(***************************************************************************)
MaxStatements == 4    \* graphs of 1..MaxStatements nodes

\* The partition handed to generateForwardFunction: the nodes of the part
\* that are no model inputs.
partition(g) == {v \in DOMAIN g : g[v].part = 0 /\ g[v].type # "IN"}

\* sortedPartitionInputs (lines 256-260); their scopes are ready from the
\* start (lines 35-36).
sortedPartitionInputs(g) ==
    {n \in DOMAIN g : \E node \in partition(g) :
        n \in g[node].in_nodes /\ (g[n].part # g[node].part \/ g[n].type = "IN")}

\* rootStatements (lines 269-270), in the order of the partition, from node
\* v on.
RECURSIVE rootStatements(_, _)
rootStatements(g, v) ==
    IF v \notin DOMAIN g THEN <<>>
    ELSE (IF /\ v \in partition(g)
             /\ \/ g[v].in_nodes \cap sortedPartitionInputs(g) # {}
                \/ g[v].type = "CONSTANT"
                \/ g[v].type = "PYTHON_PRIMITIVE"
          THEN <<v>> ELSE <<>>) \o rootStatements(g, v + 1)

\* inputsNotReady (lines 229-230)
inputsNotReady(g, node, ready_expressions) ==
    \E operand \in g[node].in_nodes : operand \notin ready_expressions

\* Lines 79-82: the locals before the first iteration.
gen_start(g) ==
    [open_nodes |-> rootStatements(g, 0), close_nodes |-> {},
     ready_expressions |-> sortedPartitionInputs(g), statements |-> <<>>,
     node |-> <<>>]

\* The nodes that can have idx v: a model input or a constant, or a layer,
\* an operator or a list construction with in_nodes among the nodes before.
NodesAt(v) ==
    [type : {"IN", "CONSTANT"}, part : 0 .. (MaxParts - 1), in_nodes : {{}}]
    \cup [type : {"LAYER", "OP", "PYTHON_PRIMITIVE"}, part : 0 .. (MaxParts - 1),
          in_nodes : (SUBSET (0 .. (v - 1))) \ {{}}]

\* The graphs of n nodes.
RECURSIVE TracedGraphs(_)
TracedGraphs(n) ==
    IF n = 0 THEN {<<>>}
    ELSE {[v \in 0 .. (n - 1) |-> IF v = n - 1 THEN node ELSE g[v]] :
             g \in TracedGraphs(n - 1), node \in NodesAt(n - 1)}

GenInit ==
    /\ PipelineIdle
    /\ DelayerIdle
    /\ WrapIdle
    /\ num_gpus = 1
    /\ num_runs = 1
    /\ count = 0
    /\ cur_mode = "eval"
    /\ pc = "gen"
    /\ error = NoError
    /\ lastCall = "none"
    /\ \E n \in 1 .. MaxStatements : graph \in TracedGraphs(n)
    /\ nparts = Cardinality({graph[v].part : v \in DOMAIN graph})
    /\ scc = <<>>
    /\ bfs = <<>>
    /\ gen = gen_start(graph)

\* The elements of a set that a list does not hold yet, in each order they
\* can be appended in (OrderedSet.update with a list built from a set).
Additions(S, lst) == Orders(S \ {lst[k] : k \in DOMAIN lst})

\* Lines 83-84: the loop test holds and the first node of the worklist is
\* popped; node holds it until the body has run.
GenPop ==
    /\ pc = "gen"
    /\ gen.node = <<>>
    /\ gen.open_nodes # <<>>
    /\ gen' = [gen EXCEPT !.node = <<Head(gen.open_nodes)>>,
                          !.open_nodes = Tail(gen.open_nodes)]
    /\ lastCall' = "open_nodes.pop"
    /\ UNCHANGED <<pipelineVars, delayerVars, wrapVars, num_gpus, num_runs, count,
                   cur_mode, pc, error, graph, nparts, scc, bfs>>

\* Lines 85-109: the body of the loop on the popped node.
GenStep ==
    /\ pc = "gen"
    /\ gen.node # <<>>
    /\ LET node == gen.node[1]
           rest == gen.open_nodes
       IN  IF node \in gen.close_nodes
           THEN gen' = [gen EXCEPT !.node = <<>>]
           ELSE IF inputsNotReady(graph, node, gen.ready_expressions)
                THEN gen' = [gen EXCEPT !.open_nodes = Append(rest, node),
                                        !.node = <<>>]
                ELSE \E added \in Additions(
                            IF graph[node].type # "CONSTANT"
                            THEN {n \in out_nodes(graph, node) :
                                     graph[n].part = graph[node].part}
                            ELSE {}, rest) :
                        gen' = [open_nodes |-> rest \o added,
                                close_nodes |-> gen.close_nodes \cup {node},
                                ready_expressions |-> gen.ready_expressions \cup {node},
                                statements |-> Append(gen.statements, node),
                                node |-> <<>>]
    /\ lastCall' = "gen"
    /\ UNCHANGED <<pipelineVars, delayerVars, wrapVars, num_gpus, num_runs, count,
                   cur_mode, pc, error, graph, nparts, scc, bfs>>

\* Lines 83, 111-114: the worklist is empty and the statements are returned.
GenReturn ==
    /\ pc = "gen"
    /\ gen.node = <<>>
    /\ gen.open_nodes = <<>>
    /\ pc' = "done"
    /\ lastCall' = "generateStatements"
    /\ UNCHANGED <<pipelineVars, delayerVars, wrapVars, num_gpus, num_runs, count,
                   cur_mode, error, graph, nparts, scc, bfs, gen>>

GenNext ==
    \/ GenPop
    \/ GenStep
    \/ GenReturn

\* The loop keeps running while it can.
GenSpec == GenInit /\ [][GenNext]_vars /\ WF_vars(GenNext)

(***************************************************************************)
(* Properties.                                                             *)
(***************************************************************************)
ForwardReturned == pc = "idle" /\ lastCall = "forward"

ReverseReturned == pc = "idle" /\ lastCall = "reverse"

\* stage N-1(... stage 0(micro-batch k) ...)
Unpipelined(k) == Tensor(k, [j \in 1 .. num_gpus |-> j - 1], num_gpus - 1)

\* C1: run_forward returns, in micro-batch order 0..M-1, what the stages
\* applied in rank order to each micro-batch return.
C1_RunForwardIsUnpipelined ==
    ForwardReturned =>
        /\ error = NoError
        /\ output = [k \in 1 .. num_runs |-> Unpipelined(k - 1)]

\* C2: an operator called by stage i at cycle c is called on micro-batch
\* c - i, and a completed run_forward has called the operator of every
\* stage on each micro-batch 0..M-1 once, micro-batch k at cycle i + k.
C2_StageActsOnMicroBatchCMinusI ==
    /\ \A i \in Stages : \A n \in DOMAIN calls[i] :
          calls[i][n][2] = calls[i][n][1] - i
    /\ ForwardReturned =>
          \A i \in Stages :
             calls[i] = [k \in 1 .. num_runs |-> <<i + k - 1, k - 1>>]

\* C3: the last stage computes a real output on exactly the cycles
\* N-1 .. N+M-2, and run_forward returns exactly those M outputs, in order,
\* none of them a placeholder.
C3_LastStageRealOnDrainCycles ==
    ForwardReturned =>
        /\ Len(output) = num_runs
        /\ \A k \in 1 .. Len(output) : output[k].mb = k - 1
        /\ Len(calls[num_gpus - 1]) = num_runs
        /\ \A k \in 1 .. Len(calls[num_gpus - 1]) :
              calls[num_gpus - 1][k][1] = num_gpus - 1 + k - 1

\* C4: a run_forward performs exactly F = N + M - 1 forward cycles and the
\* run_reverse that follows it in training exactly F reverse cycles.
C4_ExactlyFCycles ==
    /\ ForwardReturned => fwdCycles = F
    /\ (ReverseReturned /\ followsTrain) => revCycles = F

\* C5: in a forward-train run_forward every checkpointing stage pushes M
\* checkpoints, and the run_reverse after it pops M from every stage without
\* ever popping an empty queue, leaving every queue empty.
C5_MPushesThenMPops ==
    /\ (ForwardReturned /\ cur_mode = "train") =>
          \A i \in Stages : pushes[i] = num_runs
    /\ (lastCall = "reverse" /\ followsTrain) =>
          /\ error # IndexError
          /\ ReverseReturned =>
                \A i \in Stages : pops[i] = num_runs /\ QueueLen(wrappers[i]) = 0

\* C6: the checkpoint queue of every stage never holds more than M entries.
C6_QueueLengthAtMostM ==
    \A i \in Stages :
        /\ Len(wrappers[i].activations) <= num_runs
        /\ Len(wrappers[i].rng_states) <= num_runs

\* The steps in which the driver applies finished_prop() to every stage.
FinishedPropStep ==
    \/ pc = "idle" /\ pc' = "forward"
    \/ pc = "failed" /\ pc' = "idle"
    \/ pc = "reverse_done" /\ pc' = "idle"

\* C7: right after finished_prop() the saved inputs and the saved RNG states
\* of the stage are empty.
C7_QueueEmptyAfterFinishedProp ==
    [][FinishedPropStep =>
         \A i \in Stages : /\ wrappers'[i].activations = <<>>
                            /\ wrappers'[i].rng_states = <<>>]_vars

\* A run_reverse begun with every checkpoint queue empty.
ReverseOnEmptyQueues == lastCall = "reverse" /\ \A i \in Stages : startQueues[i] = 0

\* C8: a run_reverse begun with every checkpoint queue empty never completes
\* its sweep: it fails with the empty-queue error (IndexError from pop(0)) in
\* its first cycle, at a stage whose output is valid in that cycle.
C8_ReverseOnEmptyQueuesUnderflows ==
    ReverseOnEmptyQueues =>
        /\ pc # "reverse_done"
        /\ revCycles = 0
        /\ pc = "idle" => error = IndexError
        /\ pc = "failed" =>
              /\ error = IndexError
              /\ count = 0
              /\ output_valid(RankAtPos)

C8_Witness ==
    /\ ReverseOnEmptyQueues
    /\ num_gpus >= 2
    /\ pc = "failed"
    /\ error = IndexError

\* C9: when a driver call has failed and returned, every stage has null
\* buffered input, null buffered gradients and empty checkpoint queues.
C9_CleanSlateAfterError ==
    (pc = "idle" /\ error # NoError) =>
        \A i \in Stages :
            /\ wrappers[i].prev_inputs = NoneAttr
            /\ wrappers[i].grads = NoneAttr
            /\ wrappers[i].activations = <<>>
            /\ wrappers[i].rng_states = <<>>

\* C10: a batch run does not depend on earlier runs: at its first cycle
\* every stage holds what a newly built stage holds (as in a run with no
\* history), whatever runs came before.
C10_RunStartsLikeTheFirst ==
    (pc = "forward" /\ count = 0 /\ pos = 0) =>
        \A i \in Stages :
            /\ wrappers[i].prev_inputs = NewWrapper.prev_inputs
            /\ wrappers[i].grads = NewWrapper.grads
            /\ wrappers[i].activations = NewWrapper.activations
            /\ wrappers[i].rng_states = NewWrapper.rng_states

\* C11: no operator of a SyncWrapper has read a buffered input whose
\* transfer on the pipe_stream was not complete.
C11_NoReadOfTransferInFlight == ~raced

\* A forward-eval run_forward has returned, and the run_forward before it
\* was a forward-eval run on the same batch.
SecondEvalRun ==
    /\ ForwardReturned
    /\ runMode = "eval"
    /\ prevRun.completed
    /\ prevRun.mode = "eval"
    /\ prevRun.m = num_runs

\* C12: the second of two forward-eval run_forward calls on the same batch
\* returns what the first returned (the same outputs, or the same error), and
\* leaves the checkpoint queue of every stage as the first run left it.
C12_EvalRunForwardIdempotent ==
    SecondEvalRun =>
        /\ output = prevRun.output
        /\ error = prevRun.error
        /\ Queues(wrappers) = prevRun.queues

C12_Witness ==
    /\ SecondEvalRun
    /\ num_runs >= 2
    /\ error = NoError
    /\ Len(output) = num_runs
    /\ QueueLen(wrappers[0]) > 0

\* C13: with one stage, run_forward in forward-train followed by run_reverse
\* completes without error, has called the operator on the micro-batches
\* 0..M-1 once each in order, returned what the operator returns for each,
\* and replayed one checkpoint per micro-batch, that of micro-batch k-1 in
\* the k-th place.
C13_SingleStageRoundTrip ==
    (ReverseReturned /\ followsTrain /\ num_gpus = 1) =>
        /\ error = NoError
        /\ calls[0] = [k \in 1 .. num_runs |-> <<k - 1, k - 1>>]
        /\ output = [k \in 1 .. num_runs |-> Unpipelined(k - 1)]
        /\ Len(popped[0]) = num_runs
        /\ \A k \in 1 .. Len(popped[0]) : popped[0][k][1].slots[1].mb = k - 1

\* The cycles 0..count of the phase, its last cycle F-1 at most, in window.
WindowSoFar(first, last) ==
    {c \in 0 .. Min(count, F - 1) : first <= c /\ c <= last}

\* C14: in a forward phase output_valid(i) holds at cycle c iff
\* i <= c < i + M, and over the cycles 0..F-1 it has held on exactly the M
\* cycles i .. i+M-1, for every stage i.
C14_OutputValidWindow ==
    cur_mode # "backward" =>
        \A i \in Stages :
            /\ output_valid(i) <=> (i <= count /\ count < i + num_runs)
            /\ outCycles[i] = WindowSoFar(i, i + num_runs - 1)
            /\ count = F => /\ outCycles[i] = i .. (i + num_runs - 1)
                             /\ Cardinality(outCycles[i]) = num_runs

C14_Witness ==
    /\ cur_mode # "backward"
    /\ lastCall = "advance"
    /\ count = F
    /\ num_gpus = MaxN
    /\ num_runs = MaxM
    /\ outCycles[0] = 0 .. (MaxM - 1)
    /\ outCycles[MaxN - 1] = (MaxN - 1) .. (MaxN + MaxM - 2)

\* C15: in a forward phase input_valid(i) holds at cycle c iff
\* i+1 <= c <= i + M, that is iff output_valid(i) held at cycle c - 1, and
\* over the cycles of the phase it has held on exactly the M cycles
\* i+1 .. i+M, for every stage i.
C15_InputValidWindow ==
    cur_mode # "backward" =>
        \A i \in Stages :
            /\ input_valid(i) <=> (i + 1 <= count /\ count <= i + num_runs)
            /\ input_valid(i) <=> (count - 1) \in outCycles[i]
            /\ count = F => /\ inCycles[i] = (i + 1) .. (i + num_runs)
                             /\ Cardinality(inCycles[i]) = num_runs

\* C16: advance() adds one to the counter while a cycle of the phase is
\* left (c < F), and fails with RangeError, the counter unchanged, when the
\* phase is over.
C16_AdvanceByOneOrRangeError ==
    [][lastCall' = "advance" =>
          IF count < F
          THEN count' = count + 1 /\ error' = NoError
          ELSE count' = count /\ error' = RangeError]_vars

C16_Witness ==
    /\ lastCall = "advance"
    /\ error = RangeError
    /\ count = F
    /\ cur_mode = "backward"

\* C17: a forward call of a stage in forward-eval mode leaves the saved
\* inputs and the saved RNG states of every stage as they were.
C17_EvalForwardLeavesQueues ==
    [][(lastCall' = "forward" /\ cur_mode = "eval") =>
          Queues(wrappers)' = Queues(wrappers)]_vars

C17_Witness ==
    /\ lastCall = "forward"
    /\ cur_mode = "eval"
    /\ pos >= 2
    /\ input_valid(RankAtPos)
    /\ error = NoError
    /\ QueueLen(wrappers[RankAtPos]) > 0
    /\ ~wrappers[RankAtPos].prev_inputs.isNone

\* C18: the k-th checkpoint a stage pops in a reverse sweep is the k-th it
\* pushed in the forward sweep before it, saved input and saved RNG state
\* alike.
C18_CheckpointsPoppedInPushOrder ==
    (lastCall = "reverse" /\ followsTrain) =>
        \A i \in Stages :
            /\ Len(popped[i]) <= Len(pushed[i])
            /\ \A k \in 1 .. Min(Len(popped[i]), Len(pushed[i])) :
                  popped[i][k] = pushed[i][k]

\* C19: in a forward-train sweep the EntryStage is fed a genuine micro-batch
\* (c < M) on exactly the cycles on which input_valid(0) holds, and after the
\* sweep it has pushed M checkpoints, the k-th a copy of micro-batch k-1.
C19_EntryCheckpointsEveryMicroBatch ==
    /\ (pc = "forward" /\ pos = 0 /\ cur_mode = "train") =>
          ((Cycle < num_runs) <=> input_valid(0))
    /\ (ForwardReturned /\ runMode = "train") =>
          /\ Len(pushed[0]) = num_runs
          /\ \A k \in 1 .. Len(pushed[0]) : pushed[0][k][1].slots[1].mb = k - 1

\* The operator of stage i has been called in the current cycle.
InvokedThisCycle(i) == \E n \in DOMAIN calls[i] : calls[i][n][1] = Cycle

\* C20: when every stage of a forward cycle has been called, the operator
\* of stage i has been invoked in that cycle iff output_valid(i) holds, and a
\* run_forward that has returned has invoked the operator of every stage M
\* times.
C20_OperatorInvokedIffOutputValid ==
    /\ (pc = "forward" /\ pos = EndPos) =>
          \A i \in Stages : InvokedThisCycle(i) <=> output_valid(i)
    /\ (pc = "failed" /\ lastCall = "forward") =>
          \A i \in 0 .. RankAtPos : InvokedThisCycle(i) <=> output_valid(i)
    /\ ForwardReturned => \A i \in Stages : Len(calls[i]) = num_runs

\* A SyncWrapper has been called with forward in a forward mode.
SyncForwardCalled == lastCall = "forward" /\ pos >= 2 /\ cur_mode # "backward"

\* What the claim has in prev_inputs after forward(input) of rank i.
BufferedAsClaimed(i, input) ==
    IF ~input_valid(i) \/ input.dev = i
    THEN Tuple(<<None>>)
    ELSE Tuple(<<to(input, i)>>)

\* C21: after forward of a SyncWrapper (a call that returned, or one at a
\* cycle where no merge is made) every slot of prev_inputs is None when
\* input_valid(rank) is false; when it is true prev_inputs holds the input
\* moved to the wrapper's device, with None in the slot of a tensor that was
\* on that device already.
C21_BufferedInputAfterForward ==
    (SyncForwardCalled /\ (error = NoError \/ ~output_valid(RankAtPos))) =>
        wrappers[RankAtPos].prev_inputs = BufferedAsClaimed(RankAtPos, arg)

\* What the claim has the merge return in slot k.
MergedAsClaimed(k) ==
    IF buffered.slots[k] = None THEN arrived.slots[k] ELSE buffered.slots[k]

\* C22: the merge of a prev_inputs of slots with the inputs of a call
\* returns a structure of as many slots; each slot holds the buffered value
\* when that is not None and the arrived value when it is, for every
\* combination of None and other slots.
C22_MergeIsSlotWise ==
    (merged # Pending /\ ~buffered.isNone) =>
        /\ merged.err = NoError
        /\ merged.val = Tuple([k \in DOMAIN buffered.slots |-> MergedAsClaimed(k)])

\* The tensors of a structure, left to right.
RECURSIVE Leaves(_)
Leaves(tensors) ==
    IF tensors.kind = "tensor" THEN <<tensors>>
    ELSE IF tensors.items = <<>> THEN <<>>
    ELSE Leaves(tensors.items[1])
             \o Leaves(Container(tensors.kind, Tail(tensors.items)))

\* tensors_split has returned.
SplitReturned == micro_batches # <<>>

\* The k-th micro-batch holds, in every tensor, the rows of the batch from
\* row (k-1) * size on, at most size of them, in their order.
CoversRowsInOrder ==
    \A k \in DOMAIN micro_batches :
        /\ Len(Leaves(micro_batches[k])) = Len(Leaves(batch))
        /\ \A l \in DOMAIN Leaves(batch) :
              LET all == Leaves(batch)[l].rows
                  part == Leaves(micro_batches[k])[l].rows
              IN  /\ Len(part) = Min(size, Len(all) - (k - 1) * size)
                  /\ \A n \in DOMAIN part : part[n] = all[(k - 1) * size + n]

C30_CatOfSplitIsIdentity ==
    joined # NoStructure => joined = batch

C30_Witness ==
    /\ joined = batch
    /\ lastCall = "tensors_cat"
    /\ Len(Leaves(batch)) = 3
    /\ batch_dim(batch) = 3
    /\ size = 2
    /\ Len(micro_batches) = 2

\* The step is the reverse step of a SyncWrapper.
SyncReverseStep == lastCall' = "reverse" /\ pos >= 2

\* C23: the reverse step of a SyncWrapper that holds a checkpoint pops the
\* oldest checkpoint and calls the operator once, on the checkpointed input,
\* when output_valid(rank) holds; when it does not hold the step returns a
\* placeholder, pops nothing and does not call the operator.
C23_ReverseRecomputesIffOutputValid ==
    [][SyncReverseStep =>
          LET i == RankAtPos
          IN  IF output_valid(i)
              THEN QueueLen(wrappers[i]) > 0 =>
                      /\ error' = NoError
                      /\ QueueLen(wrappers'[i]) = QueueLen(wrappers[i]) - 1
                      /\ Len(calls'[i]) = 1
                      /\ x' = module(i, Head(wrappers[i].activations))
              ELSE /\ error' = NoError
                   /\ Queues(wrappers') = Queues(wrappers)
                   /\ calls'[i] = <<>>
                   /\ x' = gen_garbage_output(i)]_vars

\* C24: a reverse step of a SyncWrapper at a cycle where input_valid(rank)
\* does not hold, or where the wrapper holds no buffered input, propagates
\* no gradient: it computes no buffered gradient and, when the cycle has no
\* valid output either, it returns its placeholder.
C24_GradsPropagatedOnlyWhenBuffered ==
    [][(SyncReverseStep
          /\ ~(input_valid(RankAtPos) /\ has_grads(wrappers[RankAtPos]))) =>
             /\ wrappers'[RankAtPos].grads = wrappers[RankAtPos].grads
             /\ ~output_valid(RankAtPos) =>
                   /\ error' = NoError
                   /\ x' = gen_garbage_output(RankAtPos)]_vars

\* C26: a SyncWrapper whose forward has buffered an input it received has
\* recorded the devices of its inputs, and input_devices is set wherever
\* update_grads has computed the gradients it moves to those devices.
C26_InputDevicesSetBeforeUse ==
    \A i \in Stages :
        /\ (SyncForwardCalled /\ i = RankAtPos /\ input_valid(i)
                /\ arg.mb # NoBatch /\ error = NoError) =>
              ~wrappers[i].input_devices.isNone
        /\ ~wrappers[i].grads.isNone => ~wrappers[i].input_devices.isNone

\* C25: in the reverse sweep after a forward-train run the
\* ActivationSavingLayer pops its oldest checkpoint and returns the
\* checkpointed micro-batch in the cycles where output_valid(0) holds and
\* returns a placeholder in the others; it never finds its queue empty, the
\* k-th micro-batch it replays is micro-batch k-1, and a completed sweep has
\* replayed M.
C25_EntryReplaysWhatItWasFed ==
    (lastCall = "reverse" /\ followsTrain) =>
        /\ (pc = "reverse" /\ pos = EndPos) =>
              IF output_valid(0)
              THEN /\ popped[0] # <<>>
                   /\ x = popped[0][Len(popped[0])][1].slots[1]
              ELSE x.mb = NoBatch
        /\ (pc = "failed" /\ pos = 0) => error # IndexError
        /\ \A k \in DOMAIN popped[0] : popped[0][k][1].slots[1].mb = k - 1
        /\ ReverseReturned => Len(popped[0]) = num_runs

\* The methods of a stage.
StageMethods == {"forward", "reverse", "pop_activation", "update_grads", "finished_prop"}

\* C27: a call of a stage method (forward, which saves the activation, the
\* reverse step, pop_activation, update_grads, finished_prop) leaves the
\* cycle count, M, N and the mode of the counter as they were.
C27_StagesLeaveTheCounter ==
    [][lastCall' \in StageMethods =>
          /\ count' = count
          /\ num_runs' = num_runs
          /\ num_gpus' = num_gpus
          /\ cur_mode' = cur_mode]_vars

C27_Witness ==
    /\ lastCall = "forward"
    /\ cur_mode = "train"
    /\ pos >= 2
    /\ count = RankAtPos + num_runs
    /\ error = NoError
    /\ QueueLen(wrappers[RankAtPos]) > 0

\* The step is a call of the stage at the driver's position.
StageCallStep == pc \in {"forward", "reverse"} /\ pos # EndPos

\* C28: a call of a method of stage i leaves prev_inputs, grads and the
\* checkpoint lists of every other stage as they were.
C28_OtherStagesUntouched ==
    [][StageCallStep =>
          \A j \in Ranks : j # RankAtPos => wrappers'[j] = wrappers[j]]_vars

C28_Witness ==
    /\ pc = "forward"
    /\ pos = EndPos
    /\ num_gpus >= 2
    /\ QueueLen(wrappers[0]) > 0
    /\ wrappers[num_gpus - 1].prev_inputs = Tuple(<<None>>)
    /\ pushes[0] = 0

\* C31: a DeviceDelayer has max(delays) blocks, and a tensor that arrives
\* from a device with delay d emerges from the chain d cycles after it
\* arrived: a forward on a cycle where the stage's output is valid raises
\* nothing and returns, in every slot whose tensor of d cycles before arrived
\* on or after the stage's first cycle, that tensor.
C31_TensorEmergesAfterItsDelay ==
    [][DelayerForward =>
          /\ Len(delay_blocks) = max_of({device_delays[d] : d \in SourceDevices})
          /\ error' = NoError
          /\ output_valid(gpu_num) =>
                \A k \in SourceDevices :
                    count - device_delays[k] >= gpu_num =>
                        emerged'.val.slots[k].mb = count - device_delays[k]]_vars


\* C32: every wrapper wrap_layers installs, SyncWrapper or LayerWrapper, has
\* as gpu_num the index of its layer's device in the device list and as
\* device that device.
C32_WrappersCarryRankAndDevice ==
    lastCall = "wrap_layers" =>
        \A scope \in DOMAIN installed :
            /\ installed[scope].gpu_num =
                  Integer(index(device_lst, top_scopes_to_device[scope]))
            /\ installed[scope].device = top_scopes_to_device[scope]


\* The nodes reachable from the nodes of S along the edges of g.
RECURSIVE closure(_, _)
closure(g, S) ==
    LET T == S \cup UNION {out_nodes(g, v) : v \in S}
    IN  IF T = S THEN S ELSE closure(g, T)

\* u and v are in one strongly connected component of g.
SameComponent(g, u, v) == v \in closure(g, {u}) /\ u \in closure(g, {v})

\* C33: after OP_inputs_partition_correction every OP node and all of its
\* input nodes are in one part, also when the groups of OP nodes overlap.
C33_OpWithItsInputs ==
    (pc = "scc" /\ lastCall = "OP_inputs_partition_correction") =>
        \A v \in DOMAIN graph :
            graph[v].type = "OP" =>
                \A u \in graph[v].in_nodes : graph[u].part = graph[v].part

\* C34: after scc_partition_correction all nodes of every strongly connected
\* component carry the same part.
C34_NoComponentSplit ==
    pc = "done" =>
        \A u, v \in DOMAIN graph :
            SameComponent(graph, u, v) => graph[u].part = graph[v].part

C34_Witness ==
    /\ pc = "done"
    /\ \E comp \in scc.moved :
          /\ Cardinality(comp) >= 2
          /\ \A v \in comp : graph[v].part \in 0 .. (nparts - 1)

\* C35: parts that are all in 0..nparts-1 before the two corrections are all
\* in 0..nparts-1 after them.
C35_PartsStayValid ==
    pc = "done" => \A v \in DOMAIN graph : graph[v].part \in 0 .. (nparts - 1)

\* C36: strongly_connected_components_iterative raises nothing and yields
\* sets that partition the vertices, two vertices being in one yielded set
\* iff each is reachable from the other.
C36_YieldsTheComponents ==
    /\ error = NoError
    /\ pc = "done" =>
          /\ \A v \in DOMAIN graph :
                Cardinality({k \in DOMAIN scc.yielded : v \in scc.yielded[k]}) = 1
          /\ \A u, v \in DOMAIN graph :
                (\E k \in DOMAIN scc.yielded :
                    u \in scc.yielded[k] /\ v \in scc.yielded[k])
                <=> SameComponent(graph, u, v)
    /\ pc = "scc" =>
          \A k \in DOMAIN scc.yielded :
              \A u \in scc.yielded[k] :
                  scc.yielded[k] = {v \in DOMAIN graph : SameComponent(graph, u, v)}

C36_Witness ==
    /\ pc = "done"
    /\ Len(scc.yielded) >= 2
    /\ \E k \in DOMAIN scc.yielded : Cardinality(scc.yielded[k]) >= 2


\* C37: _partition_to_device raises nothing, and what it returns maps every
\* part to a device of the list and distinct parts to distinct devices, the
\* devices being handed out in the order of the list.
C37_EveryPartGetsItsDevice ==
    /\ error = NoError
    /\ pc = "done" =>
          /\ \A v \in DOMAIN graph :
                \E k \in DOMAIN bfs.part_to_device :
                    bfs.part_to_device[k] = graph[v].part
          /\ \A j, k \in DOMAIN bfs.part_to_device :
                j # k => /\ bfs.part_to_device[j] # bfs.part_to_device[k]
                         /\ device_lst[j] # device_lst[k]


\* C38: generateStatements terminates for every partition: the worklist
\* empties and the function returns.
C38_GenerateStatementsTerminates == <>(pc = "done")


====
